---- MODULE Spec2Model ----
(***************************************************************************)
(* Nutrease: nutrition diary.  Model of the alarm time algorithm           *)
(* (models/diary.py), the nutrient dataset (services/dataset_service.py),  *)
(* food portions and meals (models/record.py) and the daily diary          *)
(* (models/diary.py, models/user.py, controllers/patient_controller.py).   *)
(*                                                                         *)
(* Timestamps are wall-clock seconds counted from 00:00:00 of day 0, and   *)
(* day 0 is a Monday, so that date() and weekday() are plain arithmetic.   *)
(* Every datetime of one call carries the application's single time zone   *)
(* (utils/tz.py), for which Python compares wall-clock values.             *)
(* Gram amounts are exact integers (fixed point); rounding of binary       *)
(* floating point is not represented.                                      *)
(***************************************************************************)
EXTENDS Integers, Sequences, FiniteSets, TLC

VARIABLES
    alarm,          \* the AlarmConfig under test: [hour, minute, enabled, days]
    now,            \* the `now` argument of the last next_activation call
    activation,     \* its return value: None or {timestamp}
    alarm_called,   \* TRUE once next_activation has been called
    patient_alarms, \* Patient.alarms of each patient: e-mail -> list of AlarmConfig
    scheduler,      \* the NotificationService: [patients, running, polled, notified, outcome]
    alarm_out,      \* the last alarm call of a controller: None or
                    \* {[op, patient, idx, before, rows]}
    singleton,      \* the dataset accessors and the threads calling them:
                    \* [instance, cached, built, pc, made, got]
    nutrients,      \* AlimentazioneDataset._nutrients: food key -> column -> density
    unit_grams,     \* AlimentazioneDataset._unit_grams: food key -> unit -> grams
    lookup_cache,   \* lru_cache of lookup: food_name -> returned mapping
    gpu_cache,      \* lru_cache of get_grams_per_unit: <<food_name, unit>> -> grams
    calls,          \* the dataset calls made so far: [op, food_name, unit, outcome]
    portions,       \* the FoodPortion objects constructed so far
    grams_out,      \* the last to_grams call: None or {[portion, outcome]}
    diaries,        \* Patient.diaries: list of DailyDiary [day, records]
    next_rec_id,    \* PatientController._next_rec_id
    db_meals,       \* TinyDB table MealRecord: doc_id -> row
    db_symptoms,    \* TinyDB table SymptomRecord: doc_id -> row
    db_patients,    \* TinyDB table Patient: doc_id -> row
    db_next_id,     \* next doc_id of each TinyDB table
    last_op,        \* the controller operation that ran last
    links,          \* the shared link store: list of LinkRequest
    link_clock,     \* local_now() as read by the link workflow
    link_out,       \* the last link operation: None or {[op, by, link, outcome, before, store]}
    db_links,       \* TinyDB table LinkRequest: doc_id -> row
    sessions,       \* logins, restarts, specialist reads and register_record calls so far
    db_specialists, \* TinyDB table Specialist: [table: doc_id -> row, next_id]
    db_messages,    \* TinyDB table Message: [table: doc_id -> row, next_id]
    auth_out        \* the last AuthService call: None or {[op, email, password, outcome, known,
                    \* patients, specialists]}, the last two the tables before it

schedule_vars == <<patient_alarms, scheduler, alarm_out>>
alarm_vars == <<alarm, now, activation, alarm_called, schedule_vars, singleton>>
dataset_vars == <<nutrients, unit_grams, lookup_cache, gpu_cache>>

portion_vars == <<portions, grams_out>>

diary_vars == <<diaries, next_rec_id, last_op>>
db_vars == <<db_meals, db_symptoms, db_patients, db_next_id>>

link_vars == <<links, link_clock, link_out, db_links>>

auth_vars == <<db_specialists, db_messages, auth_out>>

vars == <<alarm_vars, dataset_vars, calls, portion_vars, diary_vars, db_vars, link_vars,
          sessions, auth_vars>>

(***************************************************************************)
(* Bounds and sampled inputs                                               *)
(***************************************************************************)
NowDays == 7                    \* `now` falls on one of the days 0..NowDays-1
Hours == {0, 23}                \* sampled AlarmConfig.hour values
Minutes == {0, 59}              \* sampled AlarmConfig.minute values
Weekdays == 0..6                \* datetime.date.weekday(), 0 = Monday

(***************************************************************************)
(* Optional values: None is the empty set, a value v is {v}                *)
(***************************************************************************)
None == {}
Some(v) == {v}
TheValue(opt) == CHOOSE v \in opt : TRUE

(***************************************************************************)
(* Date and time arithmetic                                                *)
(***************************************************************************)
SecondsPerDay == 24 * 60 * 60

\* datetime.date(): the calendar day of a timestamp
DateOf(t) == t \div SecondsPerDay

\* seconds since midnight of a timestamp
TimeOfDay(t) == t % SecondsPerDay

\* date.weekday()
WeekdayOf(d) == d % 7

\* datetime.combine(candidate_date, time(hour, minute), tzinfo=LOCAL_TZ)
Combine(d, hour, minute) == d * SecondsPerDay + hour * 3600 + minute * 60

(***************************************************************************)
(* AlarmConfig.next_activation                                             *)
(***************************************************************************)
DefaultAlarm == [hour |-> 8, minute |-> 0, enabled |-> TRUE, days |-> Weekdays]

\* range(8): the number of candidate dates scanned, today included
LookaheadDaysShort == 8 - 1
LookaheadDays == 8

\* candidate_dt > now
IsAfterOrEqual(candidate_dt, t) == candidate_dt >= t
IsAfter(candidate_dt, t) == candidate_dt > t

\* the for loop over offset, from `offset` on
RECURSIVE ScanFrom(_, _, _)
ScanFrom(a, t, offset) ==
    IF offset >= LookaheadDays THEN None
    ELSE LET candidate_date == DateOf(t) + offset
             candidate_dt == Combine(candidate_date, a.hour, a.minute)
         IN  IF WeekdayOf(candidate_date) \notin a.days
             THEN ScanFrom(a, t, offset + 1)
             ELSE IF IsAfter(candidate_dt, t)
                  THEN Some(candidate_dt)
                  ELSE ScanFrom(a, t, offset + 1)

next_activation_from_tomorrow(a, t) ==
    IF ~a.enabled \/ a.days = {} THEN None ELSE ScanFrom(a, t, 1)
next_activation(a, t) ==
    IF ~a.enabled \/ a.days = {} THEN None ELSE ScanFrom(a, t, 0)

\* the patients whose controllers set alarms
SecondPatient == "second@example.com"
AlarmPatients == {"patient@example.com", SecondPatient}

\* no patient has an alarm, the scheduler was never started
ScheduleIdle ==
    /\ patient_alarms = [p \in AlarmPatients |-> <<>>]
    /\ scheduler = [patients |-> <<>>, running |-> FALSE, polled |-> None,
                    notified |-> <<>>, outcome |-> "none"]
    /\ alarm_out = None

MaxThreads == 2                 \* threads that call the dataset accessor

Threads == 1..MaxThreads

\* no dataset was built and no thread has called _dataset() yet
SingletonIdle ==
    singleton = [instance |-> None, cached |-> None, built |-> 0,
                 pc |-> [t \in Threads |-> "start"],
                 made |-> [t \in Threads |-> None],
                 got |-> [t \in Threads |-> None]]

\* no alarm call is in progress
AlarmIdle ==
    /\ alarm = DefaultAlarm
    /\ now = 0
    /\ activation = None
    /\ alarm_called = FALSE
    /\ ScheduleIdle
    /\ SingletonIdle

(***************************************************************************)
(* Strings are sequences of one-character strings                          *)
(***************************************************************************)
MaxNameLen == 2                 \* longest food name passed to the dataset
MaxRows == 2                    \* most rows of the CSV file
MaxCalls == 2                   \* most dataset calls in one behaviour

LowerLetters == {"a", "b"}
UpperLetters == {"A"}
Letters == LowerLetters \cup UpperLetters

\* code points, for str comparison
Ord(c) == CASE c = " " -> 32 [] c = "A" -> 65 [] c = "B" -> 66
            [] c = "a" -> 97 [] c = "b" -> 98

\* str.lower(), character by character
LowerChar(c) == CASE c = "A" -> "a" [] c = "B" -> "b" [] OTHER -> c
SameString(s) == s
Lower(s) == [i \in 1..Len(s) |-> LowerChar(s[i])]

\* str.strip(): drop leading and trailing blanks
RECURSIVE LStrip(_)
LStrip(s) == IF s # <<>> /\ Head(s) = " " THEN LStrip(Tail(s)) ELSE s
RECURSIVE RStrip(_)
RStrip(s) ==
    IF s # <<>> /\ s[Len(s)] = " " THEN RStrip(SubSeq(s, 1, Len(s) - 1)) ELSE s
Strip(s) == RStrip(LStrip(s))

\* s < t for two str
RECURSIVE StrLess(_, _)
StrLess(s, t) ==
    IF t = <<>> THEN FALSE
    ELSE IF s = <<>> THEN TRUE
    ELSE IF Head(s) # Head(t) THEN Ord(Head(s)) < Ord(Head(t))
    ELSE StrLess(Tail(s), Tail(t))

RECURSIVE StringsOfLen(_)
StringsOfLen(n) ==
    IF n = 0 THEN {<<>>}
    ELSE { Append(s, c) : s \in StringsOfLen(n - 1), c \in Letters }

RECURSIVE StringsUpTo(_)
StringsUpTo(n) == IF n = 0 THEN {<<>>} ELSE StringsOfLen(n) \cup StringsUpTo(n - 1)

FoodNames == StringsUpTo(MaxNameLen)

(***************************************************************************)
(* Enumerations (models/enums.py)                                          *)
(***************************************************************************)
Unit == {"GRAMS", "GLASS", "ITEM", "CLOVE", "LITERS", "SLICE", "SPOON", "CUP"}
Nutrient == {"LACTOSE", "SORBITOL", "GLUTEN"}

\* n.name.lower(): the CSV column of a nutrient
NutrientColumn(n) ==
    CASE n = "LACTOSE" -> "lactose" [] n = "SORBITOL" -> "sorbitol" [] n = "GLUTEN" -> "gluten"

\* value.strip().upper() of the unit strings found in CSV files
StripUpper(raw) ==
    CASE raw = "item" -> "ITEM" [] raw = " glass " -> "GLASS" [] raw = "pinch" -> "PINCH"
      [] OTHER -> raw

\* Unit.from_str with the ValueError fallback of _load
UnitOfRow(raw) ==
    LET unit_val == IF StripUpper(raw) = "" THEN "GRAMS" ELSE StripUpper(raw)
    IN  IF unit_val \in Unit THEN unit_val ELSE "GRAMS"

(***************************************************************************)
(* difflib.get_close_matches, as used by _match_food                       *)
(***************************************************************************)

\* the blocks a[i..i+k-1] = b[j..j+k-1] inside a[alo..ahi-1], b[blo..bhi-1]
MatchingBlocks(a, b, alo, ahi, blo, bhi) ==
    { blk \in (alo..(ahi - 1)) \X (blo..(bhi - 1)) \X (1..Len(a)) :
        /\ blk[1] + blk[3] <= ahi
        /\ blk[2] + blk[3] <= bhi
        /\ \A x \in 0..(blk[3] - 1) : a[blk[1] + x] = b[blk[2] + x] }

\* SequenceMatcher.find_longest_match: longest, then earliest in a, then in b
Longest(blocks) ==
    CHOOSE blk \in blocks :
        \A other \in blocks :
            \/ other[3] < blk[3]
            \/ other[3] = blk[3] /\ other[1] > blk[1]
            \/ other[3] = blk[3] /\ other[1] = blk[1] /\ other[2] >= blk[2]
LongestMatch(a, b, alo, ahi, blo, bhi) == Longest(MatchingBlocks(a, b, alo, ahi, blo, bhi))

\* SequenceMatcher.get_matching_blocks: total size of the matching blocks
\* (the longest block, then the pieces to its left and to its right)
RECURSIVE MatchCount(_, _, _, _, _, _)
MatchAround(a, b, alo, ahi, blo, bhi, blk) ==
    blk[3]
    + MatchCount(a, b, alo, blk[1], blo, blk[2])
    + MatchCount(a, b, blk[1] + blk[3], ahi, blk[2] + blk[3], bhi)
MatchCount(a, b, alo, ahi, blo, bhi) ==
    IF MatchingBlocks(a, b, alo, ahi, blo, bhi) = {} THEN 0
    ELSE MatchAround(a, b, alo, ahi, blo, bhi, LongestMatch(a, b, alo, ahi, blo, bhi))

\* SequenceMatcher(a=x, b=word).ratio() = 2.0 * matches / length, as the
\* fraction <<numerator, denominator>>; 1.0 for two empty strings
Ratio(x, word) ==
    IF Len(x) + Len(word) = 0 THEN <<1, 1>>
    ELSE <<2 * MatchCount(x, word, 1, Len(x) + 1, 1, Len(word) + 1), Len(x) + Len(word)>>

\* ratio >= cutoff, cutoff = 0.6
ClearsCutoff(r) == 10 * r[1] >= 6 * r[2]

\* (score, x) < (score2, y), the order heapq.nlargest ranks candidates by
ScoreLess(rx, x, ry, y) ==
    \/ rx[1] * ry[2] < ry[1] * rx[2]
    \/ rx[1] * ry[2] = ry[1] * rx[2] /\ StrLess(x, y)
RankLess(x, y, word) == ScoreLess(Ratio(x, word), x, Ratio(y, word), y)

\* get_close_matches(word, possibilities, n=1, cutoff=0.6): [] or [best]
Best(result, word) ==
    IF result = {} THEN None
    ELSE Some(CHOOSE x \in result : \A y \in result : y = x \/ RankLess(y, x, word))
get_close_matches(word, possibilities) ==
    Best({ x \in possibilities : ClearsCutoff(Ratio(x, word)) }, word)

(***************************************************************************)
(* AlimentazioneDataset (services/dataset_service.py)                      *)
(***************************************************************************)

\* a mapping without entries, and dict assignment d[k] = v
EmptyMap == <<>>
Put(d, k, v) == [x \in (DOMAIN d) \cup {k} |-> IF x = k THEN v ELSE d[x]]

\* rows a CSV file can hold: food_name, unit, grams and the nutrient columns
\* (amounts in milligrams per `grams` of food)
SampleRows == {
    [food_name |-> <<"a", "b">>, unit |-> "item", grams |-> 3,
     cols |-> [lactose |-> 6, sorbitol |-> 0]],
    [food_name |-> <<"A", "b">>, unit |-> "GRAMS", grams |-> 1,
     cols |-> [lactose |-> 4, sorbitol |-> 0]],
    [food_name |-> <<"b", "a", " ">>, unit |-> "pinch", grams |-> 0,
     cols |-> [lactose |-> 0, sorbitol |-> 5]],
    [food_name |-> <<"b">>, unit |-> " glass ", grams |-> 2,
     cols |-> [gluten |-> 8]],
    [food_name |-> <<" ">>, unit |-> "", grams |-> 1,
     cols |-> [gluten |-> 1]]
}

RECURSIVE RowSeqs(_)
RowSeqs(n) ==
    IF n = 0 THEN {<<>>}
    ELSE RowSeqs(n - 1) \cup
         { Append(rs, r) : rs \in { q \in RowSeqs(n - 1) : Len(q) = n - 1 }, r \in SampleRows }

CsvFiles == RowSeqs(MaxRows)

\* one iteration of the loop of _load over the rows
LoadRow(ds, row) ==
    LET food == Lower(Strip(row.food_name))
        grams == IF row.grams = 0 THEN 1 ELSE row.grams
        old == IF food \in DOMAIN ds.nutrients THEN ds.nutrients[food] ELSE EmptyMap
        oldUnits == IF food \in DOMAIN ds.unit_grams THEN ds.unit_grams[food] ELSE EmptyMap
        present == { NutrientColumn(n) : n \in Nutrient } \cap DOMAIN row.cols
        dens == [c \in (DOMAIN old) \cup present |->
                    IF c \in present THEN row.cols[c] \div grams ELSE old[c]]
    IN  IF food = <<>> THEN ds
        ELSE [nutrients |-> Put(ds.nutrients, food, dens),
              unit_grams |-> Put(ds.unit_grams, food, Put(oldUnits, UnitOfRow(row.unit), grams))]

\* AlimentazioneDataset._load
RECURSIVE Load(_)
Load(rows) ==
    IF rows = <<>> THEN [nutrients |-> EmptyMap, unit_grams |-> EmptyMap]
    ELSE LoadRow(Load(SubSeq(rows, 1, Len(rows) - 1)), rows[Len(rows)])

\* outcome of a call: None when it raised KeyError, Some(value) when it returned
KeyError == None

\* AlimentazioneDataset._match_food
MatchKey(key) ==
    IF key \in DOMAIN nutrients THEN Some(key)
    ELSE get_close_matches(key, DOMAIN nutrients)
MatchFoodCaseSensitive(food_name) == MatchKey(SameString(food_name))
MatchFood(food_name) == MatchKey(Lower(food_name))

\* the body of lookup, run on a cache miss
NutrientsOf(key) ==
    IF key = None THEN KeyError ELSE Some(nutrients[TheValue(key)])
LookupBody(food_name) == NutrientsOf(MatchFood(food_name))

\* the body of get_grams_per_unit, run on a cache miss
UnitGramsOrOne(key, unit) ==
    IF key = None THEN KeyError
    ELSE IF unit \notin DOMAIN unit_grams[TheValue(key)] THEN Some(1)
    ELSE Some(unit_grams[TheValue(key)][unit])
UnitGramsOf(key, unit) ==
    IF key = None THEN KeyError
    ELSE IF unit \notin DOMAIN unit_grams[TheValue(key)] THEN KeyError
    ELSE Some(unit_grams[TheValue(key)][unit])
GramsPerUnitDefaultOne(food_name, unit) == UnitGramsOrOne(MatchFood(food_name), unit)
GramsPerUnitBody(food_name, unit) == UnitGramsOf(MatchFood(food_name), unit)

\* @lru_cache lookup: the cached value on a hit, else the body's outcome
CachedLookup(food_name) ==
    IF food_name \in DOMAIN lookup_cache THEN Some(lookup_cache[food_name])
    ELSE LookupBody(food_name)

\* @lru_cache get_grams_per_unit
CachedGramsPerUnit(food_name, unit) ==
    IF <<food_name, unit>> \in DOMAIN gpu_cache THEN Some(gpu_cache[<<food_name, unit>>])
    ELSE GramsPerUnitBody(food_name, unit)

\* lru_cache stores returned values only, never a raised exception
CacheAfter(cache, args, outcome) ==
    IF outcome = None \/ args \in DOMAIN cache THEN cache
    ELSE Put(cache, args, TheValue(outcome))

\* a patient without diary entries, a fresh controller and an empty database
DiaryIdle ==
    /\ diaries = <<>>
    /\ next_rec_id = 1
    /\ last_op = "none"
    /\ db_meals = <<>>
    /\ db_symptoms = <<>>
    /\ db_patients = <<>>
    /\ db_next_id = [MealRecord |-> 1, SymptomRecord |-> 1, Patient |-> 1]
    /\ sessions = 0

\* an empty link store and no LinkRequest row
LinkIdle ==
    /\ links = <<>>
    /\ link_clock = 0
    /\ link_out = None
    /\ db_links = [table |-> <<>>, next_id |-> 1]

\* no Specialist row and no AuthService call yet
AuthIdle ==
    /\ db_specialists = [table |-> <<>>, next_id |-> 1]
    /\ db_messages = [table |-> <<>>, next_id |-> 1]
    /\ auth_out = None

PortionIdle ==
    /\ portions = <<>>
    /\ grams_out = None

DatasetIdle ==
    /\ nutrients = EmptyMap
    /\ unit_grams = EmptyMap
    /\ lookup_cache = EmptyMap
    /\ gpu_cache = EmptyMap

\* the dataset right after AlimentazioneDataset(csv_path)
DatasetLoaded ==
    /\ \E csv \in CsvFiles :
        /\ nutrients = Load(csv).nutrients
        /\ unit_grams = Load(csv).unit_grams
    /\ lookup_cache = EmptyMap
    /\ gpu_cache = EmptyMap

InitDataset ==
    /\ AlarmIdle
    /\ DatasetLoaded
    /\ calls = <<>>
    /\ PortionIdle
    /\ DiaryIdle
    /\ LinkIdle
    /\ AuthIdle

\* units passed to get_grams_per_unit
CallUnits == {"GRAMS", "ITEM"}

\* dataset.lookup(food_name)
LookupCall ==
    /\ Len(calls) < MaxCalls
    /\ \E food_name \in FoodNames :
        LET outcome == CachedLookup(food_name)
        IN  /\ lookup_cache' = CacheAfter(lookup_cache, food_name, outcome)
            /\ calls' = Append(calls, [op |-> "lookup", food_name |-> food_name,
                                       unit |-> "GRAMS", outcome |-> outcome])
    /\ UNCHANGED <<auth_vars, sessions, link_vars, alarm_vars, nutrients, unit_grams, gpu_cache, portion_vars, diary_vars, db_vars>>

\* dataset.get_grams_per_unit(food_name, unit)
GramsPerUnitCall ==
    /\ Len(calls) < MaxCalls
    /\ \E food_name \in FoodNames, unit \in CallUnits :
        LET outcome == CachedGramsPerUnit(food_name, unit)
        IN  /\ gpu_cache' = CacheAfter(gpu_cache, <<food_name, unit>>, outcome)
            /\ calls' = Append(calls, [op |-> "get_grams_per_unit", food_name |-> food_name,
                                       unit |-> unit, outcome |-> outcome])
    /\ UNCHANGED <<auth_vars, sessions, link_vars, alarm_vars, nutrients, unit_grams, lookup_cache, portion_vars, diary_vars, db_vars>>

NextDataset == LookupCall \/ GramsPerUnitCall

SpecDataset == InitDataset /\ [][NextDataset]_vars

(***************************************************************************)
(* FoodPortion (models/record.py)                                          *)
(***************************************************************************)
MaxPortions == 1                \* most FoodPortion objects of the portion specification
MaxQuantity == 2                \* largest FoodPortion.quantity

Quantities == 0..MaxQuantity

\* iteration order of the Nutrient enumeration
NutrientOrder == <<"LACTOSE", "SORBITOL", "GLUTEN">>

\* lookup.get(n.name.lower(), 0.0)
DensityOf(lookup, n) ==
    IF NutrientColumn(n) \in DOMAIN lookup THEN lookup[NutrientColumn(n)] ELSE 0

\* FoodPortion.to_grams: None when it raises, else the grams
ToGramsNoConversion(p) == Some(p.quantity)
GramsOrRaise(grams, quantity) ==
    IF grams = KeyError THEN KeyError ELSE Some(TheValue(grams) * quantity)
GramsOrQuantity(grams, quantity) ==
    IF grams = KeyError THEN Some(quantity) ELSE Some(TheValue(grams) * quantity)
ToGramsRaises(p) == GramsOrRaise(CachedGramsPerUnit(p.food_name, p.unit), p.quantity)
ToGrams(p) == GramsOrQuantity(CachedGramsPerUnit(p.food_name, p.unit), p.quantity)

\* the portion as __post_init__ sees it when it calls self.to_grams()
BarePortion(food_name, quantity, unit) ==
    [food_name |-> food_name, quantity |-> quantity, unit |-> unit, nutrients |-> <<>>]

\* FoodPortion.__post_init__ for a portion constructed without nutrients:
\* None when an exception leaves the constructor, else the portion
LookupOrDefault(found) == IF found = KeyError THEN [lactose |-> 1] ELSE TheValue(found)
LookupOrEmpty(found) == IF found = KeyError THEN EmptyMap ELSE TheValue(found)
Tracked(lookup) ==
    LET Positive(n) == DensityOf(lookup, n) > 0
    IN  SelectSeq(NutrientOrder, Positive)
IntakesOf(kept, lookup, grams) ==
    [i \in 1..Len(kept) |->
        [nutrient |-> kept[i], grams |-> grams * DensityOf(lookup, kept[i])]]
WithNutrients(bare, lookup, grams) ==
    IF grams = None THEN None
    ELSE Some([bare EXCEPT !.nutrients = IntakesOf(Tracked(lookup), lookup, TheValue(grams))])
NewFoodPortion(food_name, quantity, unit) ==
    WithNutrients(BarePortion(food_name, quantity, unit),
                  LookupOrEmpty(CachedLookup(food_name)),
                  ToGrams(BarePortion(food_name, quantity, unit)))

InitPortion ==
    /\ AlarmIdle
    /\ DatasetLoaded
    /\ calls = <<>>
    /\ PortionIdle
    /\ DiaryIdle
    /\ LinkIdle
    /\ AuthIdle

\* the list of portions after a constructor call: unchanged when it raised
AppendMade(ps, made) == IF made = None THEN ps ELSE Append(ps, TheValue(made))

\* a to_grams call and its outcome
ToGramsOutcome(p) == [portion |-> p, outcome |-> ToGrams(p)]

\* FoodPortion(food_name=..., quantity=..., unit=...); grams_out records the
\* to_grams call made by __post_init__
CreatePortion ==
    /\ Len(portions) < MaxPortions
    /\ \E food_name \in FoodNames, quantity \in Quantities, unit \in CallUnits :
        /\ portions' = AppendMade(portions, NewFoodPortion(food_name, quantity, unit))
        /\ grams_out' = Some(ToGramsOutcome(BarePortion(food_name, quantity, unit)))
        /\ lookup_cache' = CacheAfter(lookup_cache, food_name, CachedLookup(food_name))
        /\ gpu_cache' = CacheAfter(gpu_cache, <<food_name, unit>>,
                                   CachedGramsPerUnit(food_name, unit))
    /\ UNCHANGED <<auth_vars, sessions, link_vars, alarm_vars, nutrients, unit_grams, calls, diary_vars, db_vars>>

\* portion.to_grams() on a constructed portion
ToGramsCall ==
    /\ \E i \in 1..Len(portions) :
        /\ grams_out' = Some(ToGramsOutcome(portions[i]))
        /\ gpu_cache' = CacheAfter(gpu_cache, <<portions[i].food_name, portions[i].unit>>,
                                   CachedGramsPerUnit(portions[i].food_name, portions[i].unit))
    /\ UNCHANGED <<auth_vars, sessions, link_vars, alarm_vars, nutrients, unit_grams, lookup_cache, calls, portions, diary_vars, db_vars>>

NextPortion == CreatePortion \/ ToGramsCall

SpecPortion == InitPortion /\ [][NextPortion]_vars

(***************************************************************************)
(* Records, DailyDiary, Patient and PatientController                      *)
(***************************************************************************)
MaxDay == 1                     \* diary days are 0..MaxDay
MaxMealPortions == 2            \* most portions of one meal
MaxOps == 2                     \* most controller operations in one behaviour

DiaryDays == 0..MaxDay
DiaryTimes == {8 * 3600, 20 * 3600}
Severities == {"MILD", "SEVERE"}
PatientEmail == "patient@example.com"

\* the file data/alimentazione_demo.csv of the diary specification
DemoCsv == <<
    [food_name |-> <<"a", "b">>, unit |-> "item", grams |-> 3,
     cols |-> [lactose |-> 6, sorbitol |-> 0]],
    [food_name |-> <<"b", "a", " ">>, unit |-> "pinch", grams |-> 0,
     cols |-> [lactose |-> 0, sorbitol |-> 5]],
    [food_name |-> <<"b">>, unit |-> " glass ", grams |-> 2,
     cols |-> [gluten |-> 8, lactose |-> 2]] >>

\* (food_name, quantity, unit) triples entered in the meal form: an exact
\* name, a name found by fuzzy match, and a food the dataset does not know
PortionInputs == {
    [food_name |-> <<"A", "b">>, quantity |-> 2, unit |-> "ITEM"],
    [food_name |-> <<"b", "b">>, quantity |-> 1, unit |-> "GLASS"],
    [food_name |-> <<"a", "a">>, quantity |-> 2, unit |-> "GRAMS"] }

RECURSIVE PortionInputSeqs(_)
PortionInputSeqs(n) ==
    IF n = 0 THEN {<<>>}
    ELSE PortionInputSeqs(n - 1) \cup
         { Append(q, i) : q \in { r \in PortionInputSeqs(n - 1) : Len(r) = n - 1 },
                          i \in PortionInputs }

\* MealRecord(id=..., created_at=..., portions=...); patient_email is None
\* while the object has no such attribute
MealRecord(id, created_at, ps) ==
    [record_type |-> "MEAL", id |-> id, created_at |-> created_at, portions |-> ps,
     symptom |-> "", severity |-> "NONE", patient_email |-> None]

\* SymptomRecord(id=..., created_at=..., symptom=..., severity=...)
SymptomRecord(id, created_at, symptom, severity) ==
    [record_type |-> "SYMPTOM", id |-> id, created_at |-> created_at, portions |-> <<>>,
     symptom |-> symptom, severity |-> severity, patient_email |-> None]

\* sum(ni.grams for ni in portion.nutrients if ni.nutrient == nutrient)
RECURSIVE IntakeSum(_, _)
IntakeSum(intakes, nutrient) ==
    IF intakes = <<>> THEN 0
    ELSE (IF Head(intakes).nutrient = nutrient THEN Head(intakes).grams ELSE 0)
         + IntakeSum(Tail(intakes), nutrient)

\* the sum over `for portion in self.portions`
RECURSIVE PortionsSum(_, _)
PortionsSum(ps, nutrient) ==
    IF ps = <<>> THEN 0
    ELSE IntakeSum(Head(ps).nutrients, nutrient) + PortionsSum(Tail(ps), nutrient)

\* MealRecord.get_nutrient_total
GetNutrientTotalFirstPortion(meal, nutrient) ==
    IF meal.portions = <<>> THEN 0
    ELSE IntakeSum(Head(meal.portions).nutrients, nutrient)
get_nutrient_total(meal, nutrient) == PortionsSum(meal.portions, nutrient)

\* the loop of DailyDiary.get_totals over self.records
RECURSIVE RecordsTotal(_, _)
RecordsTotal(records, nutrient) ==
    IF records = <<>> THEN 0
    ELSE (IF Head(records).record_type = "MEAL"
          THEN get_nutrient_total(Head(records), nutrient) ELSE 0)
         + RecordsTotal(Tail(records), nutrient)

\* the same loop with `total = ...` in place of `total += ...`
RECURSIVE LastMealTotal(_, _)
LastMealTotal(records, nutrient) ==
    IF records = <<>> THEN 0
    ELSE IF records[Len(records)].record_type = "MEAL"
         THEN get_nutrient_total(records[Len(records)], nutrient)
         ELSE LastMealTotal(SubSeq(records, 1, Len(records) - 1), nutrient)

\* DailyDiary.get_totals
GetTotalsLastMeal(diary, nutrient) == LastMealTotal(diary.records, nutrient)
get_totals(diary, nutrient) == RecordsTotal(diary.records, nutrient)

\* index of the first TRUE of a list of test results, 0 if none
FirstIndex(hits) ==
    IF \E i \in 1..Len(hits) : hits[i]
    THEN CHOOSE i \in 1..Len(hits) : hits[i] /\ \A j \in 1..(i - 1) : ~hits[j]
    ELSE 0

\* a diary lookup that never finds the day
DiaryIndexOfNone(day) == FirstIndex([k \in 1..Len(diaries) |-> FALSE])

\* PatientController.get_diary: index of the first diary of the day, 0 if none
GetDiaryIndex(day) ==
    LET OfDay(d) == d.day = day
    IN  FirstIndex([k \in 1..Len(diaries) |-> OfDay(diaries[k])])

\* PatientController.nutrient_total
NutrientTotalLastMeal(day, nutrient) ==
    IF GetDiaryIndex(day) = 0 THEN 0
    ELSE LastMealTotal(diaries[GetDiaryIndex(day)].records, nutrient)
nutrient_total(day, nutrient) ==
    IF GetDiaryIndex(day) = 0 THEN 0
    ELSE RecordsTotal(diaries[GetDiaryIndex(day)].records, nutrient)

\* DailyDiary.add_record: None for the ValueError, else the diary
DiaryAddRecord(diary, record) ==
    IF DateOf(record.created_at) # diary.day THEN None
    ELSE Some([diary EXCEPT !.records = Append(diary.records, record)])

\* list.remove(x): drop the first element equal to x
RemoveFirst(seq, x) ==
    LET IsX(e) == e = x
        i == FirstIndex([k \in 1..Len(seq) |-> IsX(seq[k])])
    IN  IF i = 0 THEN seq ELSE SubSeq(seq, 1, i - 1) \o SubSeq(seq, i + 1, Len(seq))

\* DailyDiary.remove_record
DiaryRemoveRecord(diary, record) ==
    [diary EXCEPT !.records = RemoveFirst(diary.records, record)]

\* DailyDiary.modify_record: None for the ValueError, else the diary
DiaryModifyRecord(diary, old, new) ==
    LET IsOld(e) == e = old
        idx == FirstIndex([k \in 1..Len(diary.records) |-> IsOld(diary.records[k])])
    IN  IF idx = 0 \/ DateOf(new.created_at) # diary.day THEN None
        ELSE Some([diary EXCEPT !.records[idx] = new])

\* Patient.register_record: None when add_record raises, else the diaries
RegisterRecord(work_date, record) ==
    LET i == GetDiaryIndex(work_date)
    IN  IF i = 0
        THEN Some(Append(diaries, [day |-> work_date, records |-> <<record>>]))
        ELSE IF DiaryAddRecord(diaries[i], record) = None THEN None
        ELSE Some([diaries EXCEPT ![i] = TheValue(DiaryAddRecord(diaries[i], record))])

\* datetime.isoformat() and datetime.fromisoformat() of a naive datetime
IsoFormat(t) ==
    [date |-> DateOf(t), hour |-> TimeOfDay(t) \div 3600,
     minute |-> (TimeOfDay(t) % 3600) \div 60, second |-> TimeOfDay(t) % 60]
FromIsoFormat(iso) == Combine(iso.date, iso.hour, iso.minute) + iso.second

\* Record.as_dict and its overrides: the row of a record; patient_email is
\* written only when the object carries the attribute
RecordAsDict(record) == [record EXCEPT !.created_at = IsoFormat(@)]

\* Database.save of an object with an `id`: upsert by id, else insert and
\* overwrite the stored id with the new doc_id
SaveRow(table, next_id, data) ==
    IF data.id # 0 /\ \E d \in DOMAIN table : table[d].id = data.id
    THEN [table |-> [d \in DOMAIN table |-> IF table[d].id = data.id THEN data ELSE table[d]],
          next_id |-> next_id]
    ELSE [table |-> Put(table, next_id, [data EXCEPT !.id = next_id]),
          next_id |-> next_id + 1]

\* Database.delete(obj): remove the rows whose id equals obj.id
DeleteRow(table, id) ==
    LET kept == { d \in DOMAIN table : table[d].id # id }
    IN  [d \in kept |-> table[d]]

\* Patient.as_dict, the row written by Database.save(patient)
PatientRow == [email |-> PatientEmail]

\* Database.save(self.patient): a Patient row carries no id and is inserted
SavePatient ==
    /\ db_patients' = Put(db_patients, db_next_id.Patient, PatientRow)

\* the list comprehension building the portions of a meal
BuildPortions(inputs) ==
    [i \in 1..Len(inputs) |->
        TheValue(NewFoodPortion(inputs[i].food_name, inputs[i].quantity, inputs[i].unit))]

\* the caches after the portions of a meal were built
RECURSIVE LookupCacheAfter(_, _)
LookupCacheAfter(cache, inputs) ==
    IF inputs = <<>> THEN cache
    ELSE LookupCacheAfter(
            CacheAfter(cache, Head(inputs).food_name, CachedLookup(Head(inputs).food_name)),
            Tail(inputs))

RECURSIVE GpuCacheAfter(_, _)
GpuCacheAfter(cache, inputs) ==
    IF inputs = <<>> THEN cache
    ELSE GpuCacheAfter(
            CacheAfter(cache, <<Head(inputs).food_name, Head(inputs).unit>>,
                       CachedGramsPerUnit(Head(inputs).food_name, Head(inputs).unit)),
            Tail(inputs))

\* PatientController.add_record: register, save the record, save the patient
AddRecord(record, op) ==
    /\ RegisterRecord(DateOf(record.created_at), record) # None
    /\ diaries' = TheValue(RegisterRecord(DateOf(record.created_at), record))
    /\ IF record.record_type = "MEAL"
       THEN LET saved == SaveRow(db_meals, db_next_id.MealRecord, RecordAsDict(record))
            IN  /\ db_meals' = saved.table
                /\ db_symptoms' = db_symptoms
                /\ db_next_id' = [db_next_id EXCEPT !.MealRecord = saved.next_id,
                                                    !.Patient = @ + 1]
       ELSE LET saved == SaveRow(db_symptoms, db_next_id.SymptomRecord, RecordAsDict(record))
            IN  /\ db_symptoms' = saved.table
                /\ db_meals' = db_meals
                /\ db_next_id' = [db_next_id EXCEPT !.SymptomRecord = saved.next_id,
                                                    !.Patient = @ + 1]
    /\ SavePatient
    /\ last_op' = op

OpsLeft == Cardinality(DOMAIN db_patients) < MaxOps

\* PatientController.add_meal
AddMeal ==
    /\ OpsLeft
    /\ \E day \in DiaryDays, when \in DiaryTimes, inputs \in PortionInputSeqs(MaxMealPortions) :
        /\ AddRecord(MealRecord(next_rec_id, Combine(day, 0, 0) + when, BuildPortions(inputs)),
                     "add_meal")
        /\ lookup_cache' = LookupCacheAfter(lookup_cache, inputs)
        /\ gpu_cache' = GpuCacheAfter(gpu_cache, inputs)
    /\ next_rec_id' = next_rec_id + 1
    /\ UNCHANGED <<auth_vars, sessions, link_vars, alarm_vars, nutrients, unit_grams, calls, portion_vars>>

\* PatientController.add_symptom
AddSymptom ==
    /\ OpsLeft
    /\ \E day \in DiaryDays, when \in DiaryTimes, severity \in Severities :
        AddRecord(SymptomRecord(next_rec_id, Combine(day, 0, 0) + when, "nausea", severity),
                  "add_symptom")
    /\ next_rec_id' = next_rec_id + 1
    /\ UNCHANGED <<auth_vars, sessions, link_vars, alarm_vars, dataset_vars, calls, portion_vars>>

\* PatientController.remove_record, past its two early returns
RemoveRecord ==
    /\ OpsLeft
    /\ \E day \in DiaryDays, record_id \in 1..next_rec_id :
        LET di == GetDiaryIndex(day)
            HasId(r) == r.id = record_id
            ri == IF di = 0 THEN 0 ELSE FirstIndex([k \in 1..Len(diaries[di].records) |-> HasId(diaries[di].records[k])])
        IN  /\ di # 0
            /\ ri # 0
            /\ LET target == diaries[di].records[ri]
               IN  /\ diaries' = [diaries EXCEPT ![di] = DiaryRemoveRecord(@, target)]
                   /\ IF target.record_type = "MEAL"
                      THEN /\ db_meals' = DeleteRow(db_meals, target.id)
                           /\ db_symptoms' = db_symptoms
                           /\ last_op' = "remove_meal"
                      ELSE /\ db_symptoms' = DeleteRow(db_symptoms, target.id)
                           /\ db_meals' = db_meals
                           /\ last_op' = "remove_symptom"
    /\ SavePatient
    /\ db_next_id' = [db_next_id EXCEPT !.Patient = @ + 1]
    /\ UNCHANGED <<auth_vars, sessions, link_vars, alarm_vars, dataset_vars, calls, portion_vars, next_rec_id>>

\* PatientController.modify_meal, when the diary and the meal exist
ModifyMeal ==
    /\ OpsLeft
    /\ \E day \in DiaryDays, record_id \in 1..next_rec_id,
          inputs \in PortionInputSeqs(MaxMealPortions) :
        LET di == GetDiaryIndex(day)
            IsOld(r) == r.id = record_id /\ r.record_type = "MEAL"
            ri == IF di = 0 THEN 0 ELSE FirstIndex([k \in 1..Len(diaries[di].records) |-> IsOld(diaries[di].records[k])])
        IN  /\ di # 0
            /\ ri # 0
            /\ LET old == diaries[di].records[ri]
                   new == MealRecord(record_id, old.created_at, BuildPortions(inputs))
                   saved == SaveRow(db_meals, db_next_id.MealRecord, RecordAsDict(new))
               IN  /\ DiaryModifyRecord(diaries[di], old, new) # None
                   /\ diaries' = [diaries EXCEPT
                                    ![di] = TheValue(DiaryModifyRecord(@, old, new))]
                   /\ db_meals' = saved.table
                   /\ db_next_id' = [db_next_id EXCEPT !.MealRecord = saved.next_id,
                                                       !.Patient = @ + 1]
            /\ lookup_cache' = LookupCacheAfter(lookup_cache, inputs)
            /\ gpu_cache' = GpuCacheAfter(gpu_cache, inputs)
    /\ SavePatient
    /\ last_op' = "modify_meal"
    /\ UNCHANGED <<auth_vars, sessions, link_vars, alarm_vars, nutrients, unit_grams, calls, portion_vars, next_rec_id,
                   db_symptoms>>

\* PatientController.modify_symptom, when the diary and the symptom exist
ModifySymptom ==
    /\ OpsLeft
    /\ \E day \in DiaryDays, record_id \in 1..next_rec_id, when \in DiaryTimes,
          severity \in Severities :
        LET di == GetDiaryIndex(day)
            IsOld(r) == r.id = record_id /\ r.record_type = "SYMPTOM"
            ri == IF di = 0 THEN 0 ELSE FirstIndex([k \in 1..Len(diaries[di].records) |-> IsOld(diaries[di].records[k])])
        IN  /\ di # 0
            /\ ri # 0
            /\ LET old == diaries[di].records[ri]
                   new == SymptomRecord(record_id, Combine(day, 0, 0) + when, "nausea", severity)
                   saved == SaveRow(db_symptoms, db_next_id.SymptomRecord, RecordAsDict(new))
               IN  /\ DiaryModifyRecord(diaries[di], old, new) # None
                   /\ diaries' = [diaries EXCEPT
                                    ![di] = TheValue(DiaryModifyRecord(@, old, new))]
                   /\ db_symptoms' = saved.table
                   /\ db_next_id' = [db_next_id EXCEPT !.SymptomRecord = saved.next_id,
                                                       !.Patient = @ + 1]
    /\ SavePatient
    /\ last_op' = "modify_symptom"
    /\ UNCHANGED <<auth_vars, sessions, link_vars, alarm_vars, dataset_vars, calls, portion_vars, next_rec_id, db_meals>>

\* the dataset loaded from the demo file
DemoDatasetLoaded ==
    /\ nutrients = Load(DemoCsv).nutrients
    /\ unit_grams = Load(DemoCsv).unit_grams
    /\ lookup_cache = EmptyMap
    /\ gpu_cache = EmptyMap

InitDiary ==
    /\ AlarmIdle
    /\ DemoDatasetLoaded
    /\ calls = <<>>
    /\ PortionIdle
    /\ DiaryIdle
    /\ LinkIdle
    /\ AuthIdle

NextDiary == AddMeal \/ AddSymptom \/ RemoveRecord \/ ModifyMeal \/ ModifySymptom

SpecDiary == InitDiary /\ [][NextDiary]_vars

(***************************************************************************)
(* Records read back from the database: login and the specialist's view    *)
(***************************************************************************)
MaxSessions == 2                \* most logins, restarts and specialist reads

SpecialistEmail == "spec@example.com"

\* LinkRequest(patient=..., specialist=..., state=...) at time `at`
LinkRequest(patient, specialist, state, at) ==
    [patient |-> patient, specialist |-> specialist, id |-> 0, state |-> state,
     requested_at |-> at, responded_at |-> None, messages |-> <<>>]

\* Message.as_dict and LinkRequest.as_dict after _sanitise: the users of a
\* message by e-mail, those of the request as their own rows, dates in ISO form
MessageAsDict(m) ==
    [sender |-> m.sender, receiver |-> m.receiver, text |-> m.text,
     sent_at |-> IsoFormat(m.sent_at)]
OptionalIso(opt) == IF opt = None THEN None ELSE Some(IsoFormat(TheValue(opt)))
LinkRequestAsDict(lr) ==
    [patient |-> [email |-> lr.patient], specialist |-> [email |-> lr.specialist],
     id |-> lr.id, state |-> lr.state, requested_at |-> IsoFormat(lr.requested_at),
     responded_at |-> OptionalIso(lr.responded_at),
     messages |-> [k \in 1..Len(lr.messages) |-> MessageAsDict(lr.messages[k])]]

\* _load_link_requests_from_db: the request built from a row; requested_at
\* is the time of loading, responded_at and the messages are not read
LoadedLinkRequest(row, at) ==
    [LinkRequest(row.patient.email, row.specialist.email, row.state, at) EXCEPT !.id = row.id]

\* an _is_linked that does not look at the state
IsLinkedInAnyState(specialist, patient) ==
    \E k \in 1..Len(links) :
        links[k].patient = patient /\ links[k].specialist = specialist

\* SpecialistController._is_linked
IsLinked(specialist, patient) ==
    \E k \in 1..Len(links) :
        /\ links[k].patient = patient
        /\ links[k].specialist = specialist
        /\ links[k].state = "CONNECTED"

\* the doc_ids of a table in insertion order
RECURSIVE SortedIds(_)
SmallestFirst(ids, m) == <<m>> \o SortedIds(ids \ {m})
SortedIds(ids) ==
    IF ids = {} THEN <<>>
    ELSE SmallestFirst(ids, CHOOSE x \in ids : \A y \in ids : x <= y)

\* Database.search(model, patient_email=email): a row without the key
\* patient_email matches no e-mail
RowsAt(table, ids) == [i \in 1..Len(ids) |-> table[ids[i]]]
SearchByPatientEmail(table, email) ==
    RowsAt(table, SortedIds({ d \in DOMAIN table : table[d].patient_email = Some(email) }))

\* FoodPortion(food_name=..., quantity=..., unit=..., nutrients=stored):
\* __post_init__ fills the nutrients in when the stored list is empty
PortionWithStored(p) ==
    IF p.nutrients = <<>> THEN TheValue(NewFoodPortion(p.food_name, p.quantity, p.unit))
    ELSE p

\* FoodPortion(food_name=..., quantity=..., unit=...) built from a row
PortionWithoutStored(p) == TheValue(NewFoodPortion(p.food_name, p.quantity, p.unit))

\* the record _populate_diaries builds from a row
PopulatedRecord(row) ==
    IF row.record_type = "MEAL"
    THEN MealRecord(row.id, FromIsoFormat(row.created_at),
                    [i \in 1..Len(row.portions) |-> PortionWithStored(row.portions[i])])
    ELSE SymptomRecord(row.id, FromIsoFormat(row.created_at), row.symptom, row.severity)

\* records_by_day[created_at.date()].append(rec), days in order of appearance
AppendAt(ds, i, rec) ==
    IF i = 0 THEN Append(ds, [day |-> DateOf(rec.created_at), records |-> <<rec>>])
    ELSE [ds EXCEPT ![i].records = Append(@, rec)]
AppendToDay(ds, rec) ==
    AppendAt(ds, FirstIndex([k \in 1..Len(ds) |-> ds[k].day = DateOf(rec.created_at)]), rec)
RECURSIVE GroupByDay(_, _)
GroupByDay(ds, recs) ==
    IF recs = <<>> THEN ds ELSE GroupByDay(AppendToDay(ds, Head(recs)), Tail(recs))

\* _DBUserRepo._populate_diaries on a freshly built Patient
PopulateDiaries(email) ==
    GroupByDay(<<>>,
        [i \in 1..Len(SearchByPatientEmail(db_meals, email)) |->
            PopulatedRecord(SearchByPatientEmail(db_meals, email)[i])]
        \o [i \in 1..Len(SearchByPatientEmail(db_symptoms, email)) |->
            PopulatedRecord(SearchByPatientEmail(db_symptoms, email)[i])])

\* the portions of a list of rows, in order
RECURSIVE PortionsOfRows(_)
PortionsOfRows(rows) ==
    IF rows = <<>> THEN <<>> ELSE Head(rows).portions \o PortionsOfRows(Tail(rows))

\* the stored portions for which __post_init__ asks the dataset
WithoutNutrients(ps) ==
    LET Empty(p) == p.nutrients = <<>>
    IN  SelectSeq(ps, Empty)

\* the record get_patient_diary builds from a row: the portions are built
\* without the stored nutrients and the record is tagged with the e-mail
SpecialistRecord(row, email) ==
    IF row.record_type = "MEAL"
    THEN [MealRecord(row.id, FromIsoFormat(row.created_at),
                     [i \in 1..Len(row.portions) |-> PortionWithoutStored(row.portions[i])])
            EXCEPT !.patient_email = Some(email)]
    ELSE [SymptomRecord(row.id, FromIsoFormat(row.created_at), row.symptom, row.severity)
            EXCEPT !.patient_email = Some(email)]

\* the rows of the asked day: `if ts.date() != day: continue`
RowsOfDay(rows, day) ==
    LET OnDay(row) == DateOf(FromIsoFormat(row.created_at)) = day
    IN  SelectSeq(rows, OnDay)

\* records.sort(key=lambda r: r.created_at), a stable sort
InsertAfter(sorted, n, r) == SubSeq(sorted, 1, n) \o <<r>> \o SubSeq(sorted, n + 1, Len(sorted))
InsertByCreatedAt(sorted, r) ==
    InsertAfter(sorted,
                Cardinality({ k \in 1..Len(sorted) : sorted[k].created_at <= r.created_at }),
                r)
RECURSIVE SortByCreatedAt(_)
SortByCreatedAt(recs) ==
    IF recs = <<>> THEN <<>>
    ELSE InsertByCreatedAt(SortByCreatedAt(SubSeq(recs, 1, Len(recs) - 1)), recs[Len(recs)])

\* the records get_patient_diary reads from the database for a day
RecordsFromRows(rows, email) == [i \in 1..Len(rows) |-> SpecialistRecord(rows[i], email)]
SpecialistRecords(email, day) ==
    SortByCreatedAt(
        RecordsFromRows(RowsOfDay(SearchByPatientEmail(db_meals, email), day), email)
        \o RecordsFromRows(RowsOfDay(SearchByPatientEmail(db_symptoms, email), day), email))

\* the file data/alimentazione_demo.csv after an update of the dataset
ChangedCsv == <<
    [food_name |-> <<"a", "b">>, unit |-> "item", grams |-> 3,
     cols |-> [lactose |-> 9, sorbitol |-> 0]],
    [food_name |-> <<"a", "a">>, unit |-> "grams", grams |-> 1,
     cols |-> [lactose |-> 1, gluten |-> 2]],
    [food_name |-> <<"b">>, unit |-> " glass ", grams |-> 2,
     cols |-> [gluten |-> 8, lactose |-> 2]] >>

\* the records a caller hands to PatientController.add_record: a meal of a
\* known or of an unknown food, or a symptom, with or without the attribute
\* patient_email
ReloadForms == {
    <<[food_name |-> <<"A", "b">>, quantity |-> 2, unit |-> "ITEM"]>>,
    <<[food_name |-> <<"a", "a">>, quantity |-> 2, unit |-> "GRAMS"]>> }
ReloadTime == 8 * 3600
Owners == {None, Some(PatientEmail)}

SessionsLeft == sessions < MaxSessions

\* the link store as _load_link_requests_from_db builds it from one row
InitReload ==
    /\ AlarmIdle
    /\ DemoDatasetLoaded
    /\ calls = <<>>
    /\ PortionIdle
    /\ DiaryIdle
    /\ \E state \in {"PENDING", "CONNECTED"} :
        /\ db_links = SaveRow(<<>>, 1,
                LinkRequestAsDict(LinkRequest(PatientEmail, SpecialistEmail, state, 0)))
        /\ links = <<LoadedLinkRequest(db_links.table[1], 0)>>
    /\ link_clock = 0
    /\ link_out = None
    /\ AuthIdle

\* PatientController.add_record(record) with a record built by the caller
AddRecordCall ==
    /\ OpsLeft
    /\ \E day \in DiaryDays, owner \in Owners :
        \/ \E inputs \in ReloadForms :
            /\ AddRecord([MealRecord(0, Combine(day, 0, 0) + ReloadTime, BuildPortions(inputs))
                            EXCEPT !.patient_email = owner], "add_record")
            /\ lookup_cache' = LookupCacheAfter(lookup_cache, inputs)
            /\ gpu_cache' = GpuCacheAfter(gpu_cache, inputs)
        \/ /\ AddRecord([SymptomRecord(0, Combine(day, 0, 0) + ReloadTime, "nausea", "MILD")
                            EXCEPT !.patient_email = owner], "add_record")
           /\ UNCHANGED <<lookup_cache, gpu_cache>>
    /\ UNCHANGED <<auth_vars, sessions, link_vars, alarm_vars, nutrients, unit_grams, calls, portion_vars,
                   next_rec_id>>

\* the application starts again: the dataset singleton is built from the CSV
\* file as it is now, and nothing of the previous process's memory is left
Restart ==
    /\ SessionsLeft
    /\ sessions' = sessions + 1
    /\ \E csv \in {DemoCsv, ChangedCsv} :
        /\ nutrients' = Load(csv).nutrients
        /\ unit_grams' = Load(csv).unit_grams
    /\ lookup_cache' = EmptyMap
    /\ gpu_cache' = EmptyMap
    /\ diaries' = <<>>
    /\ next_rec_id' = 1
    /\ last_op' = "restart"
    /\ UNCHANGED <<auth_vars, link_vars, alarm_vars, calls, portion_vars, db_vars>>

\* login of the patient: _DBUserRepo.get builds the Patient from its row and
\* _populate_diaries fills its diaries; a new PatientController serves it
Login ==
    /\ SessionsLeft
    /\ db_patients # <<>>
    /\ sessions' = sessions + 1
    /\ diaries' = PopulateDiaries(PatientEmail)
    /\ lookup_cache' = LookupCacheAfter(lookup_cache,
            WithoutNutrients(PortionsOfRows(SearchByPatientEmail(db_meals, PatientEmail))))
    /\ gpu_cache' = GpuCacheAfter(gpu_cache,
            WithoutNutrients(PortionsOfRows(SearchByPatientEmail(db_meals, PatientEmail))))
    /\ next_rec_id' = 1
    /\ last_op' = "login"
    /\ UNCHANGED <<auth_vars, link_vars, alarm_vars, nutrients, unit_grams, calls, portion_vars, db_vars>>

\* `if not records: return None`, else the new diary is appended
AppendDiary(ds, day, recs) ==
    IF recs = <<>> THEN ds ELSE Append(ds, [day |-> day, records |-> recs])

\* SpecialistController.get_patient_diary(patient, day); `found` and `loaded`
\* name what the caller does with the diary
PatientDiaryRead(found, loaded) ==
    /\ SessionsLeft
    /\ sessions' = sessions + 1
    /\ \E day \in DiaryDays :
        IF ~IsLinked(SpecialistEmail, PatientEmail)
        THEN /\ last_op' = "PermissionError"
             /\ UNCHANGED <<diaries, lookup_cache, gpu_cache>>
        ELSE IF GetDiaryIndex(day) # 0
        THEN /\ last_op' = found
             /\ UNCHANGED <<diaries, lookup_cache, gpu_cache>>
        ELSE /\ diaries' = AppendDiary(diaries, day, SpecialistRecords(PatientEmail, day))
             /\ lookup_cache' = LookupCacheAfter(lookup_cache,
                    PortionsOfRows(RowsOfDay(SearchByPatientEmail(db_meals, PatientEmail), day)))
             /\ gpu_cache' = GpuCacheAfter(gpu_cache,
                    PortionsOfRows(RowsOfDay(SearchByPatientEmail(db_meals, PatientEmail), day)))
             /\ last_op' = loaded
    /\ UNCHANGED <<auth_vars, link_vars, alarm_vars, nutrients, unit_grams, calls, portion_vars, db_vars,
                   next_rec_id>>

GetPatientDiary == PatientDiaryRead("diary_found", "diary_loaded")

\* SpecialistController.nutrient_total: the total of the diary that
\* get_patient_diary returns, 0.0 without one
SpecialistNutrientTotal == PatientDiaryRead("nutrient_total", "nutrient_total")

\* the diaries after register_record returned, unchanged when it raised
DiariesAfter(registered) == IF registered = None THEN diaries ELSE TheValue(registered)
RegisterOutcome(registered) == IF registered = None THEN "ValueError" ELSE "register_record"

\* Patient.register_record(work_date, record) with arguments of the caller
RegisterRecordCall ==
    /\ SessionsLeft
    /\ sessions' = sessions + 1
    /\ \E work_date \in DiaryDays, day \in DiaryDays :
        /\ diaries' = DiariesAfter(RegisterRecord(work_date,
                SymptomRecord(0, Combine(day, 0, 0) + ReloadTime, "nausea", "MILD")))
        /\ last_op' = RegisterOutcome(RegisterRecord(work_date,
                SymptomRecord(0, Combine(day, 0, 0) + ReloadTime, "nausea", "MILD")))
    /\ UNCHANGED <<auth_vars, link_vars, alarm_vars, dataset_vars, calls, portion_vars, db_vars,
                   next_rec_id>>

NextReload ==
    \/ AddRecordCall
    \/ RegisterRecordCall
    \/ Restart
    \/ Login
    \/ GetPatientDiary
    \/ RemoveRecord
    \/ ModifySymptom

SpecReload == InitReload /\ [][NextReload]_vars

\* records added by the controllers of successive sessions: each login
\* builds a new PatientController, whose _next_rec_id is the class's 1
NextSessions == AddMeal \/ AddSymptom \/ Login

SpecSessions == InitDiary /\ [][NextSessions]_vars

(***************************************************************************)
(* The link-request workflow                                               *)
(***************************************************************************)
MaxLinkClock == 3               \* most readings of local_now() in one behaviour

OtherEmail == "other@example.com"
Specialists == {SpecialistEmail, OtherEmail}
Senders == {PatientEmail, SpecialistEmail, OtherEmail}
Texts == {"hi"}

ClockLeft == link_clock < MaxLinkClock

\* local_now() of the call being made
LocalNow == link_clock + 1

\* an accept() that does not look at the state
AcceptFromAnyState(lr, at) ==
    Some([lr EXCEPT !.state = "CONNECTED", !.responded_at = Some(at)])

\* LinkRequest.accept and LinkRequest.reject at time `at`; None stands for
\* RuntimeError
Accept(lr, at) ==
    IF lr.state # "PENDING" THEN None
    ELSE Some([lr EXCEPT !.state = "CONNECTED", !.responded_at = Some(at)])
Reject(lr, at) ==
    IF lr.state # "PENDING" THEN None
    ELSE Some([lr EXCEPT !.state = "REJECTED", !.responded_at = Some(at)])

\* Message(sender=..., receiver=..., text=..., sent_at=...)
Message(sender, receiver, text, at) ==
    [sender |-> sender, receiver |-> receiver, text |-> text, sent_at |-> at]

\* a send_message that lets every sender through
OutcomeForAnySender(lr, sender) ==
    IF lr.state # "CONNECTED" THEN "RuntimeError" ELSE "ok"

\* LinkRequest.send_message: the exception it raises, "ok" when it returns
SendMessageOutcome(lr, sender) ==
    IF lr.state # "CONNECTED" THEN "RuntimeError"
    ELSE IF sender \notin {lr.patient, lr.specialist} THEN "PermissionError"
    ELSE "ok"

\* `self.specialist if sender is self.patient else self.patient`: the test
\* is one of identity, same_object tells whether the sender is the object
\* the request holds
ReceiverOf(lr, sender, same_object) ==
    IF sender = lr.patient /\ same_object THEN lr.specialist ELSE lr.patient

\* the request after send_message returned
SendMessage(lr, sender, same_object, text, at) ==
    [lr EXCEPT !.messages =
        Append(@, Message(sender, ReceiverOf(lr, sender, same_object), text, at))]

\* Database.save(lr): the table after the call and the doc_id it returns
LinkSaved(lr) == SaveRow(db_links.table, db_links.next_id, LinkRequestAsDict(lr))
SaveReturn(table, next_id, data) ==
    IF data.id # 0 /\ \E d \in DOMAIN table : table[d].id = data.id
    THEN CHOOSE d \in DOMAIN table :
            table[d].id = data.id /\ \A e \in DOMAIN table : table[e].id = data.id => d <= e
    ELSE next_id

\* what the last link operation was called on and how it ended
LinkOut(op, by, link, outcome, before) ==
    Some([op |-> op, by |-> by, link |-> link, outcome |-> outcome, before |-> before,
          store |-> links])

NotLinks == <<auth_vars, sessions, alarm_vars, dataset_vars, calls, portion_vars, diary_vars, db_vars>>

\* a call that raised: nothing but its outcome is left
Raised(op, by, link, outcome, before) ==
    /\ link_out' = LinkOut(op, by, link, outcome, before)
    /\ UNCHANGED <<links, link_clock, db_links>>

\* the store after `req` was appended and given the doc_id of its row
WithRequest(req, doc_id) == Append(links, [req EXCEPT !.id = doc_id])

\* PatientController.send_link_request(specialist)
SendLinkRequestCall(specialist) ==
    IF \E k \in 1..Len(links) :
            /\ links[k].patient = PatientEmail
            /\ links[k].specialist = specialist
            /\ links[k].state = "PENDING"
    THEN Raised("send_link_request", specialist, 0, "ValueError", None)
    ELSE /\ ClockLeft
         /\ link_clock' = LocalNow
         /\ links' = WithRequest(
                LinkRequest(PatientEmail, specialist, "PENDING", LocalNow),
                SaveReturn(db_links.table, db_links.next_id,
                    LinkRequestAsDict(
                        LinkRequest(PatientEmail, specialist, "PENDING", LocalNow))))
         /\ db_links' =
                LinkSaved(LinkRequest(PatientEmail, specialist, "PENDING", LocalNow))
         /\ link_out' = LinkOut("send_link_request", specialist, Len(links) + 1, "ok", None)

SendLinkRequest ==
    /\ \E specialist \in Specialists : SendLinkRequestCall(specialist)
    /\ UNCHANGED NotLinks

\* accept_request / reject_request of the controller of `specialist` on the
\* request at `link` of the store; `responded` is what accept() or reject()
\* made of it
RespondRequest(op, specialist, link, responded) ==
    IF links[link].specialist # specialist
    THEN Raised(op, specialist, link, "ValueError", Some(links[link]))
    ELSE IF responded = None
    THEN Raised(op, specialist, link, "RuntimeError", Some(links[link]))
    ELSE /\ ClockLeft
         /\ link_clock' = LocalNow
         /\ links' = [links EXCEPT ![link] = TheValue(responded)]
         /\ db_links' = LinkSaved(TheValue(responded))
         /\ link_out' = LinkOut(op, specialist, link, "ok", Some(links[link]))

\* SpecialistController.accept_request(lr)
AcceptRequest ==
    /\ \E specialist \in Specialists, link \in 1..Len(links) :
        RespondRequest("accept_request", specialist, link, Accept(links[link], LocalNow))
    /\ UNCHANGED NotLinks

\* SpecialistController.reject_request(lr)
RejectRequest ==
    /\ \E specialist \in Specialists, link \in 1..Len(links) :
        RespondRequest("reject_request", specialist, link, Reject(links[link], LocalNow))
    /\ UNCHANGED NotLinks

\* lr.send_message(sender, text) on a request of the store
LinkSendMessage ==
    /\ \E link \in 1..Len(links), sender \in Senders, same_object \in BOOLEAN,
          text \in Texts :
        IF SendMessageOutcome(links[link], sender) # "ok"
        THEN Raised("send_message", sender, link, SendMessageOutcome(links[link], sender),
                    Some(links[link]))
        ELSE /\ ClockLeft
             /\ link_clock' = LocalNow
             /\ links' = [links EXCEPT
                    ![link] = SendMessage(@, sender, same_object, text, LocalNow)]
             /\ link_out' = LinkOut("send_message", sender, link, "ok", Some(links[link]))
             /\ UNCHANGED db_links
    /\ UNCHANGED NotLinks

\* the first request of the store between the two that is in `state`, 0 if none
FirstLink(patient, specialist, state) ==
    FirstIndex([k \in 1..Len(links) |->
        /\ links[k].specialist = specialist
        /\ links[k].patient = patient
        /\ links[k].state = state])

\* SpecialistController.send_message(patient, text): through the first
\* connection with the patient, saved afterwards
ControllerSendMessage(specialist, link, text) ==
    IF link = 0
    THEN Raised("controller_send_message", specialist, 0, "ValueError", None)
    ELSE /\ ClockLeft
         /\ link_clock' = LocalNow
         /\ links' = [links EXCEPT
                ![link] = SendMessage(@, specialist, TRUE, text, LocalNow)]
         /\ db_links' = LinkSaved(SendMessage(links[link], specialist, TRUE, text, LocalNow))
         /\ link_out' = LinkOut("controller_send_message", specialist, link, "ok", Some(links[link]))

SpecialistSendMessage ==
    /\ \E specialist \in Specialists, text \in Texts :
        ControllerSendMessage(specialist,
            FirstLink(PatientEmail, specialist, "CONNECTED"), text)
    /\ UNCHANGED NotLinks

\* PatientController.remove_link(specialist): the generator reads
\* LinkRequestState.ACCEPTED, which the enumeration does not define, as soon
\* as a request of the store is between the two
PatientRemoveLink ==
    /\ \E specialist \in Specialists :
        IF \E k \in 1..Len(links) :
                links[k].patient = PatientEmail /\ links[k].specialist = specialist
        THEN Raised("patient_remove_link", specialist, 0, "AttributeError", None)
        ELSE Raised("patient_remove_link", specialist, 0, "ValueError", None)
    /\ UNCHANGED NotLinks

\* list.remove(lr): without the first element equal to lr
RemoveAt(store, i) ==
    [k \in 1..(Len(store) - 1) |-> IF k < i THEN store[k] ELSE store[k + 1]]
WithoutFirst(store, lr) ==
    RemoveAt(store, FirstIndex([k \in 1..Len(store) |-> store[k] = lr]))

\* SpecialistController.remove_link(patient) of the controller of `specialist`
ControllerRemoveLink(specialist, link) ==
    IF link = 0
    THEN Raised("specialist_remove_link", specialist, 0, "ValueError", None)
    ELSE /\ links' = WithoutFirst(links, links[link])
         /\ db_links' = [db_links EXCEPT !.table = DeleteRow(@, links[link].id)]
         /\ link_out' = LinkOut("specialist_remove_link", specialist, link, "ok", Some(links[link]))
         /\ UNCHANGED link_clock

SpecialistRemoveLink ==
    /\ \E specialist \in Specialists :
        ControllerRemoveLink(specialist, FirstLink(PatientEmail, specialist, "CONNECTED"))
    /\ UNCHANGED NotLinks

\* a patient without diary entries, two specialists and an empty link store
InitLink ==
    /\ AlarmIdle
    /\ DemoDatasetLoaded
    /\ calls = <<>>
    /\ PortionIdle
    /\ DiaryIdle
    /\ LinkIdle
    /\ AuthIdle

NextLink ==
    \/ SendLinkRequest
    \/ AcceptRequest
    \/ RejectRequest
    \/ LinkSendMessage
    \/ SpecialistSendMessage
    \/ PatientRemoveLink
    \/ SpecialistRemoveLink
    \/ GetPatientDiary
    \/ SpecialistNutrientTotal

SpecLink == InitLink /\ [][NextLink]_vars

(***************************************************************************)
(* Accounts: AuthService over the TinyDB user repository                   *)
(***************************************************************************)
HashLen == 64                   \* length of a SHA-256 hex digest
MinPasswordLen == 8             \* shortest password _validate_password accepts

\* strings are sequences of one-character strings
AsciiDigits == {"0", "1", "2", "3", "4", "5", "6", "7", "8", "9"}
AsciiUppercase ==
    {"A", "B", "C", "D", "E", "F", "G", "H", "I", "J", "K", "L", "M",
     "N", "O", "P", "Q", "R", "S", "T", "U", "V", "W", "X", "Y", "Z"}
AsciiLowercase ==
    {"a", "b", "c", "d", "e", "f", "g", "h", "i", "j", "k", "l", "m",
     "n", "o", "p", "q", "r", "s", "t", "u", "v", "w", "x", "y", "z"}
\* string.hexdigits
HexDigits == AsciiDigits \cup {"a", "b", "c", "d", "e", "f"} \cup {"A", "B", "C", "D", "E", "F"}

\* str.isalnum(): every character a letter or a digit, and at least one
IsAlnum(pwd) ==
    Len(pwd) > 0 /\ \A i \in 1..Len(pwd) : pwd[i] \in AsciiDigits \cup AsciiUppercase \cup AsciiLowercase

\* _validate_password: TRUE when it returns, FALSE when it raises ValueError
ValidatePassword(pwd) ==
    IF Len(pwd) = HashLen /\ \A i \in 1..Len(pwd) : pwd[i] \in HexDigits
    THEN TRUE
    ELSE ~ \/ Len(pwd) < MinPasswordLen
           \/ ~IsAlnum(pwd)
           \/ ~\E i \in 1..Len(pwd) : pwd[i] \in AsciiDigits
           \/ ~\E i \in 1..Len(pwd) : pwd[i] \in AsciiUppercase

\* the characters of the sampled passwords, in code order
Alphabet == <<"-", "1", "A", "P", "a", "d", "o", "p", "r", "s", "w">>
CharCode(c) == CHOOSE i \in 1..Len(Alphabet) : Alphabet[i] = c
RECURSIVE Weight(_)
Weight(raw_pw) ==
    IF raw_pw = <<>> THEN 0 ELSE CharCode(Head(raw_pw)) + 3 * Weight(Tail(raw_pw))

\* _hash: sha256(raw_pw.encode()).hexdigest(), a function of the password
\* giving HashLen lower-case hexadecimal digits
HexAlphabet ==
    <<"0", "1", "2", "3", "4", "5", "6", "7", "8", "9", "a", "b", "c", "d", "e", "f">>
HexDigest(weight, length) ==
    [i \in 1..HashLen |-> HexAlphabet[((weight + i * (length + 1)) % 16) + 1]]
Sha256HexDigest(raw_pw) == HexDigest(Weight(raw_pw), Len(raw_pw))

\* "Password1" and passwords breaking one part of the rule each: too short,
\* not alphanumeric, no digit, no upper-case letter, and the empty password
SamplePasswords == {
    <<"P", "a", "s", "s", "w", "o", "r", "d", "1">>,
    <<"P", "a", "s", "s", "1">>,
    <<"P", "a", "s", "s", "w", "o", "r", "d", "-", "1">>,
    <<"P", "a", "s", "s", "w", "o", "r", "d", "A">>,
    <<"p", "a", "s", "s", "w", "o", "r", "d", "1">>,
    <<"p", "a", "s", "s", "w", "o", "r", "d">>,
    <<>> }

\* "Password1", a second password that keeps the rule, and one that breaks it
AccountPasswords == {
    <<"P", "a", "s", "s", "w", "o", "r", "d", "1">>,
    <<"P", "a", "s", "s", "w", "o", "r", "d", "A", "1">>,
    <<"p", "a", "s", "s", "w", "o", "r", "d">> }

\* the digests of the sampled passwords, computed once
Digests == [raw_pw \in SamplePasswords \cup AccountPasswords |-> Sha256HexDigest(raw_pw)]
Hash(raw_pw) == Digests[raw_pw]


\* the patient's address as typed with capitals, and after each conversion
TypedEmail == "Patient@Example.com"
DomainLoweredEmail == "Patient@example.com"
Emails == {PatientEmail, TypedEmail, SpecialistEmail}

\* an e-mail conversion that changes nothing
SameEmail(email) == email

\* _email_adapter.validate_python: EmailStr lowers the domain and keeps the
\* local part as typed
ValidateEmail(email) == IF email = TypedEmail THEN DomainLoweredEmail ELSE email

\* _DBUserRepo._key: email.lower()
EmailKey(email) ==
    IF email \in {TypedEmail, DomainLoweredEmail} THEN PatientEmail ELSE email
Roles == {"PATIENT", "SPECIALIST", "ADMIN"}
Categories == {None, Some("DIETICIAN")}

\* Patient.as_dict and Specialist.as_dict of a user made by signup
PatientAsDict(email, password) == [email |-> email, password |-> password]
SpecialistAsDict(email, password, category) ==
    [email |-> email, password |-> password, category |-> category]

\* Database.search(model, email=email)
SearchByEmail(table, email) ==
    RowsAt(table, SortedIds({ d \in DOMAIN table : table[d].email = email }))

\* rows[0] of the rows found
FirstRow(rows) == IF rows = <<>> THEN None ELSE Some(rows[1])

\* rows[-1] of the rows found
LastRow(rows) == IF rows = <<>> THEN None ELSE Some(rows[Len(rows)])

\* _DBUserRepo.get: the latest Patient row of the e-mail, else the latest
\* Specialist row, else None
RepoGet(email) ==
    IF SearchByEmail(db_patients, EmailKey(email)) # <<>>
    THEN LastRow(SearchByEmail(db_patients, EmailKey(email)))
    ELSE LastRow(SearchByEmail(db_specialists.table, EmailKey(email)))

\* the e-mail _DBUserRepo.add gives the user before it saves it
AddedEmail(email) == ValidateEmail(EmailKey(email))

\* the second look _DBUserRepo.add takes at both tables
AlreadyStored(email) ==
    \/ SearchByEmail(db_patients, AddedEmail(email)) # <<>>
    \/ SearchByEmail(db_specialists.table, AddedEmail(email)) # <<>>

\* what the last call was given and how it ended
AuthOut(op, email, password, outcome) ==
    Some([op |-> op, email |-> email, password |-> password, outcome |-> outcome,
          known |-> RepoGet(ValidateEmail(email)) # None,
          patients |-> db_patients, specialists |-> db_specialists.table])

NotUsers ==
    <<sessions, link_vars, alarm_vars, dataset_vars, calls, portion_vars, diary_vars,
      db_meals, db_symptoms, db_messages>>

\* the call raised: the tables are as they were
AuthRaised(op, email, password, outcome) ==
    /\ auth_out' = AuthOut(op, email, password, outcome)
    /\ UNCHANGED <<db_patients, db_next_id, db_specialists>>

\* the call returned without writing
AuthReturned(op, email, password) ==
    /\ auth_out' = AuthOut(op, email, password, "ok")
    /\ UNCHANGED <<db_patients, db_next_id, db_specialists>>

\* Patient(...) then _DBUserRepo.add: User.__init__ validates the password
\* it is given, the digest
SignupPatient(email, password, hashed) ==
    IF ~ValidatePassword(hashed) \/ AlreadyStored(ValidateEmail(email))
    THEN AuthRaised("signup", email, password, "ValueError")
    ELSE /\ db_patients' = Put(db_patients, db_next_id.Patient,
                PatientAsDict(AddedEmail(ValidateEmail(email)), hashed))
         /\ db_next_id' = [db_next_id EXCEPT !.Patient = @ + 1]
         /\ auth_out' = AuthOut("signup", email, password, "ok")
         /\ UNCHANGED db_specialists

\* Specialist(...) then _DBUserRepo.add
SignupSpecialist(email, password, hashed, category) ==
    IF category = None \/ ~ValidatePassword(hashed) \/ AlreadyStored(ValidateEmail(email))
    THEN AuthRaised("signup", email, password, "ValueError")
    ELSE /\ db_specialists' =
                [table |-> Put(db_specialists.table, db_specialists.next_id,
                               SpecialistAsDict(AddedEmail(ValidateEmail(email)), hashed,
                                                TheValue(category))),
                 next_id |-> db_specialists.next_id + 1]
         /\ auth_out' = AuthOut("signup", email, password, "ok")
         /\ UNCHANGED <<db_patients, db_next_id>>

\* AuthService.signup(email, password, role=..., category=...)
SignupCall(email, password, role, category) ==
    IF RepoGet(ValidateEmail(email)) # None
    THEN AuthRaised("signup", email, password, "ValueError")
    ELSE IF role = "PATIENT"
    THEN SignupPatient(email, password, Hash(password))
    ELSE IF role = "SPECIALIST"
    THEN SignupSpecialist(email, password, Hash(password), category)
    ELSE AuthRaised("signup", email, password, "ValueError")

Signup ==
    /\ \E email \in Emails, password \in SamplePasswords, role \in Roles,
          category \in Categories :
        SignupCall(email, password, role, category)
    /\ UNCHANGED NotUsers

\* AuthService.login(email, password): the exception it raises, "ok" when
\* it returns the user
LoginOutcome(email, password) ==
    IF RepoGet(ValidateEmail(email)) = None THEN "PermissionError"
    ELSE IF TheValue(RepoGet(ValidateEmail(email))).password # Hash(password)
    THEN "PermissionError"
    ELSE "ok"

AuthLogin ==
    /\ \E email \in Emails, password \in SamplePasswords :
        IF LoginOutcome(email, password) # "ok"
        THEN AuthRaised("login", email, password, LoginOutcome(email, password))
        ELSE AuthReturned("login", email, password)
    /\ UNCHANGED NotUsers

\* an empty database
InitAuth ==
    /\ AlarmIdle
    /\ DatasetIdle
    /\ calls = <<>>
    /\ PortionIdle
    /\ DiaryIdle
    /\ LinkIdle
    /\ AuthIdle

NextAuth == Signup \/ AuthLogin

SpecAuth == InitAuth /\ [][NextAuth]_vars

(***************************************************************************)
(* The alarm specification                                                 *)
(***************************************************************************)
AlarmConfigs ==
    [hour : Hours, minute : Minutes, enabled : BOOLEAN, days : SUBSET Weekdays]

\* times of day around every sampled hour:minute, to the second
TimesOfDay ==
    { s \in { h * 3600 + m * 60 + e : h \in Hours, m \in Minutes, e \in {-1, 0, 1} } :
        s >= 0 /\ s < SecondsPerDay }

Nows == { d * SecondsPerDay + s : d \in 0..(NowDays - 1), s \in TimesOfDay }

InitAlarm ==
    /\ alarm \in AlarmConfigs
    /\ now = 0
    /\ activation = None
    /\ alarm_called = FALSE
    /\ ScheduleIdle
    /\ SingletonIdle
    /\ DatasetIdle
    /\ calls = <<>>
    /\ PortionIdle
    /\ DiaryIdle
    /\ LinkIdle
    /\ AuthIdle

\* a call alarm.next_activation(now=t)
NextActivation ==
    /\ \E t \in Nows :
        /\ now' = t
        /\ activation' = next_activation(alarm, t)
    /\ alarm_called' = TRUE
    /\ UNCHANGED <<auth_vars, sessions, link_vars, alarm, schedule_vars, singleton,
                   dataset_vars, calls, portion_vars, diary_vars, db_vars>>

NextAlarm == NextActivation

SpecAlarm == InitAlarm /\ [][NextAlarm]_vars

(***************************************************************************)
(* Claims on next_activation                                               *)
(***************************************************************************)

\* C1: whenever next_activation(now) returns a timestamp t, t is strictly
\* after now, t's weekday is one of the alarm's active days and t's time of
\* day is exactly the configured hour:minute.
C1_ActivationStrictlyFutureOnActiveDay ==
    (alarm_called /\ activation # None) =>
        LET t == TheValue(activation)
        IN  /\ t > now
            /\ WeekdayOf(DateOf(t)) \in alarm.days
            /\ TimeOfDay(t) = alarm.hour * 3600 + alarm.minute * 60

\* the call returned a timestamp on a later day because today's configured
\* time equals now
C1_Witness ==
    /\ alarm_called
    /\ activation # None
    /\ Combine(DateOf(now), alarm.hour, alarm.minute) = now
    /\ WeekdayOf(DateOf(now)) \in alarm.days

\* the occurrences of the alarm: an active weekday at the configured time
OccurrencesUpTo(a, lastDay) ==
    { Combine(d, a.hour, a.minute) : d \in { e \in 0..lastDay : WeekdayOf(e) \in a.days } }

\* C2: next_activation returns the first occurrence after now: no occurrence
\* lies strictly between now and the result; today's configured time is
\* returned when today is active and that time is still ahead, and tomorrow's
\* when every weekday is active and today's time has passed.
C2_ActivationIsFirstOccurrence ==
    (alarm_called /\ activation # None) =>
        LET t == TheValue(activation)
            today == Combine(DateOf(now), alarm.hour, alarm.minute)
        IN  /\ \A u \in OccurrencesUpTo(alarm, DateOf(t)) : ~(now < u /\ u < t)
            /\ (WeekdayOf(DateOf(now)) \in alarm.days /\ today > now) => t = today
            /\ (alarm.days = Weekdays /\ today <= now) => t = today + SecondsPerDay

\* every weekday active, today's time passed: tomorrow is returned
C2_Witness ==
    /\ alarm_called
    /\ alarm.enabled
    /\ alarm.days = Weekdays
    /\ Combine(DateOf(now), alarm.hour, alarm.minute) < now
    /\ activation = Some(Combine(DateOf(now) + 1, alarm.hour, alarm.minute))

\* C3: next_activation returns None exactly when the alarm is disabled or has
\* no active weekday; an enabled alarm with an active weekday always gets a
\* timestamp.
C3_NoneIffDisabledOrNoDays ==
    alarm_called => ((activation = None) <=> (~alarm.enabled \/ alarm.days = {}))

\* an enabled alarm whose only active day is yesterday's weekday, so that the
\* scan has to go six days ahead
C3_Witness ==
    /\ alarm_called
    /\ alarm.enabled
    /\ alarm.days = {WeekdayOf(DateOf(now) + 6)}
    /\ activation # None

OnlyTodayActiveAndPassed ==
    /\ alarm_called
    /\ alarm.enabled
    /\ alarm.days = {WeekdayOf(DateOf(now))}
    /\ Combine(DateOf(now), alarm.hour, alarm.minute) <= now

\* C4 as stated: only today's weekday active and today's configured time
\* passed, next_activation returns None.
C4_OnlyTodayPassedReturnsNone ==
    OnlyTodayActiveAndPassed => activation = None

\* C4 amended: only today's weekday active and today's configured time
\* passed, next_activation returns the same weekday one week later at the
\* configured time.
C4_OnlyTodayPassedReturnsNextWeek ==
    OnlyTodayActiveAndPassed =>
        activation = Some(Combine(DateOf(now) + 7, alarm.hour, alarm.minute))

C4_Witness ==
    /\ OnlyTodayActiveAndPassed
    /\ activation # None

(***************************************************************************)
(* Claims on the dataset lookups                                           *)
(***************************************************************************)
Keys == DOMAIN nutrients

\* no key equals the lowercased name and none is similar enough to it
HasNoMatch(food_name) ==
    /\ Lower(food_name) \notin Keys
    /\ \A k \in Keys : ~ClearsCutoff(Ratio(k, Lower(food_name)))

\* C7: lookup and get_grams_per_unit raise KeyError when the food has no
\* exact or fuzzy match, get_grams_per_unit raises KeyError when the matched
\* food has no entry for the unit, and a returned value is always the entry
\* recorded for the matched food, never a default.
C7_LookupsRaiseKeyError ==
    \A i \in 1..Len(calls) :
        LET c == calls[i]
            key == MatchFood(c.food_name)
        IN  /\ HasNoMatch(c.food_name) => (key = None /\ c.outcome = KeyError)
            /\ (c.op = "get_grams_per_unit" /\ key # None
                    /\ c.unit \notin DOMAIN unit_grams[TheValue(key)])
                  => c.outcome = KeyError
            /\ (c.op = "get_grams_per_unit" /\ c.outcome # KeyError)
                  => \E k \in Keys :
                        /\ c.unit \in DOMAIN unit_grams[k]
                        /\ c.outcome = Some(unit_grams[k][c.unit])
            /\ (c.op = "lookup" /\ c.outcome # KeyError)
                  => \E k \in Keys : c.outcome = Some(nutrients[k])

\* a food found by fuzzy match that has units, but not the requested one, and
\* a lookup of a name without any match
C7_Witness ==
    /\ Len(calls) = 2
    /\ calls[1].op = "get_grams_per_unit"
    /\ calls[1].outcome = KeyError
    /\ ~HasNoMatch(calls[1].food_name)
    /\ Lower(calls[1].food_name) \notin Keys
    /\ calls[2].op = "lookup"
    /\ calls[2].outcome = KeyError
    /\ Keys # {}

\* the names differ in letter case only
DifferInCaseOnly(s, t) == s # t /\ Lower(s) = Lower(t)

\* C8: two names that differ only in letter case give the same lookup and
\* get_grams_per_unit results, and when the lowercased name is a key of the
\* dataset the result is that key's own entry.
C8_CaseInsensitiveExactFirst ==
    /\ \A i, j \in 1..Len(calls) :
        (/\ calls[i].op = calls[j].op
         /\ calls[i].unit = calls[j].unit
         /\ DifferInCaseOnly(calls[i].food_name, calls[j].food_name))
            => calls[i].outcome = calls[j].outcome
    /\ \A i \in 1..Len(calls) :
        LET c == calls[i]
            key == Lower(c.food_name)
        IN  key \in Keys =>
                IF c.op = "lookup" THEN c.outcome = Some(nutrients[key])
                ELSE IF c.unit \in DOMAIN unit_grams[key]
                     THEN c.outcome = Some(unit_grams[key][c.unit])
                     ELSE c.outcome = KeyError

\* "Ab" and "ab" looked up in a dataset that holds "ab" and a similar key
C8_Witness ==
    /\ Len(calls) = 2
    /\ calls[1].op = "lookup"
    /\ calls[2].op = "lookup"
    /\ DifferInCaseOnly(calls[1].food_name, calls[2].food_name)
    /\ Lower(calls[1].food_name) \in Keys
    /\ calls[1].outcome # KeyError
    /\ calls[2].outcome = calls[1].outcome
    /\ \E k \in Keys : k # Lower(calls[1].food_name)
                        /\ ClearsCutoff(Ratio(k, Lower(calls[1].food_name)))

(***************************************************************************)
(* Claims on FoodPortion.to_grams                                          *)
(***************************************************************************)

\* the dataset entry the portion's food resolves to records the portion's unit
ResolvesWithUnit(p) ==
    /\ MatchFood(p.food_name) # None
    /\ p.unit \in DOMAIN unit_grams[TheValue(MatchFood(p.food_name))]

\* C5: for a portion whose food resolves, exactly or by fuzzy match, to a
\* dataset entry that records the portion's unit, to_grams() equals quantity
\* times that entry's grams per unit.
C5_ToGramsIsQuantityTimesGramsPerUnit ==
    \A g \in grams_out :
        ResolvesWithUnit(g.portion) =>
            g.outcome = Some(g.portion.quantity
                             * unit_grams[TheValue(MatchFood(g.portion.food_name))][g.portion.unit])

\* two units of a food found by fuzzy match, three grams each
C5_Witness ==
    \E g \in grams_out :
        /\ g.portion.nutrients # <<>>
        /\ ResolvesWithUnit(g.portion)
        /\ Lower(g.portion.food_name) \notin Keys
        /\ g.portion.quantity = 2
        /\ g.outcome = Some(6)

\* C6: to_grams() never raises, and when the food has no dataset match or the
\* matched food has no entry for the unit it returns exactly the quantity.
C6_ToGramsFallsBackToQuantity ==
    \A g \in grams_out :
        /\ g.outcome # None
        /\ ~ResolvesWithUnit(g.portion) => g.outcome = Some(g.portion.quantity)

\* both fallbacks: the last call was for an unmatched food, and a food that is
\* matched but lacks the unit
C6_Witness ==
    \E g \in grams_out :
        /\ g.portion.quantity = 2
        /\ MatchFood(g.portion.food_name) # None
        /\ ~ResolvesWithUnit(g.portion)
        /\ g.outcome = Some(2)

(***************************************************************************)
(* Claims on nutrient totals                                               *)
(***************************************************************************)

\* the meal records held by the patient's diaries
DiaryMeals ==
    UNION { { diaries[d].records[r] :
                r \in { x \in 1..Len(diaries[d].records) :
                            diaries[d].records[x].record_type = "MEAL" } } :
            d \in 1..Len(diaries) }

\* a meal holding the given portions
MealOf(ps) == MealRecord(0, 0, ps)

\* C9: get_nutrient_total is additive over portions: the total of a meal with
\* portions A followed by B is the total of a meal with A plus the total of a
\* meal with B, for every nutrient, and a meal without portions totals 0.
C9_NutrientTotalAdditive ==
    \A n \in Nutrient :
        /\ get_nutrient_total(MealOf(<<>>), n) = 0
        /\ \A m1 \in DiaryMeals, m2 \in DiaryMeals :
            get_nutrient_total(MealOf(m1.portions \o m2.portions), n)
                = get_nutrient_total(m1, n) + get_nutrient_total(m2, n)
        /\ \A m \in DiaryMeals : \A k \in 0..Len(m.portions) :
            get_nutrient_total(m, n)
                = get_nutrient_total(MealOf(SubSeq(m.portions, 1, k)), n)
                  + get_nutrient_total(MealOf(SubSeq(m.portions, k + 1, Len(m.portions))), n)

\* two meals of two portions each, both with lactose, one also with gluten
C9_Witness ==
    \E m1 \in DiaryMeals, m2 \in DiaryMeals :
        /\ m1 # m2
        /\ Len(m1.portions) = 2
        /\ Len(m2.portions) = 2
        /\ get_nutrient_total(m1, "LACTOSE") > 0
        /\ get_nutrient_total(m2, "LACTOSE") > 0
        /\ get_nutrient_total(m2, "GLUTEN") > 0
        /\ get_nutrient_total(m1, "LACTOSE") # get_nutrient_total(m2, "LACTOSE")

\* the sum of a list of numbers
RECURSIVE SumSeq(_)
SumSeq(xs) == IF xs = <<>> THEN 0 ELSE Head(xs) + SumSeq(Tail(xs))

\* the sum of get_nutrient_total over the MealRecord entries of a diary
MealEntriesTotal(diary, n) ==
    LET IsMeal(r) == r.record_type = "MEAL"
        meals == SelectSeq(diary.records, IsMeal)
    IN  SumSeq([i \in 1..Len(meals) |-> PortionsSum(meals[i].portions, n)])

SymptomOps == {"add_symptom", "modify_symptom", "remove_symptom"}

UnknownInputs == { inp \in PortionInputs : HasNoMatch(inp.food_name) }

\* the meal forms that hold at least one of the given inputs
FormsWith(unknown) ==
    { inputs \in PortionInputSeqs(MaxMealPortions) :
        \E k \in 1..Len(inputs) : inputs[k] \in unknown }

\* the portion is built, without nutrient intakes
BuiltEmpty(made) == made # None /\ TheValue(made).nutrients = <<>>

\* a meal of these portions is registered on every day and at every time
MealGoesThrough(ps) ==
    \A day \in DiaryDays, when \in DiaryTimes :
        RegisterRecord(day, MealRecord(next_rec_id, Combine(day, 0, 0) + when, ps)) # None

\* wherever the controller can still act, a portion of a food among `unknown`
\* is built without nutrient intakes and add_meal goes through for every form
\* that holds one of them; the recorded portions of these foods total 0
UnknownNeverFail(unknown) ==
    /\ OpsLeft =>
        /\ \A inp \in unknown :
            BuiltEmpty(NewFoodPortion(inp.food_name, inp.quantity, inp.unit))
        /\ \A inputs \in FormsWith(unknown) : MealGoesThrough(BuildPortions(inputs))
    /\ \A m \in DiaryMeals : \A k \in 1..Len(m.portions) :
        (\E inp \in unknown : inp.food_name = m.portions[k].food_name) =>
            \A n \in Nutrient : get_nutrient_total(MealOf(<<m.portions[k]>>), n) = 0

\* C11: creating a FoodPortion whose food has no dataset match raises
\* nothing, adding a meal that contains it raises nothing, and the portion
\* contributes exactly 0 to get_nutrient_total for every nutrient.
C11_UnknownFoodContributesZero == UnknownNeverFail(UnknownInputs)

\* a meal just added with a known food that carries lactose and an unknown one
C11_Witness ==
    /\ last_op = "add_meal"
    /\ \E m \in DiaryMeals :
        /\ Len(m.portions) = 2
        /\ HasNoMatch(m.portions[2].food_name)
        /\ m.portions[2].quantity > 0
        /\ ~HasNoMatch(m.portions[1].food_name)
        /\ get_nutrient_total(m, "LACTOSE") > 0
        /\ get_nutrient_total(m, "LACTOSE")
             = get_nutrient_total(MealOf(<<m.portions[1]>>), "LACTOSE")

(***************************************************************************)
(* Claims on records read back from the database                           *)
(***************************************************************************)

\* the rows of the MealRecord table
MealRows == { db_meals[d] : d \in DOMAIN db_meals }

\* the meal has the totals that its row recorded when the meal was saved
TotalsAsRecorded(meal) ==
    \A row \in MealRows :
        row.id = meal.id =>
            \A n \in Nutrient : get_nutrient_total(meal, n) = get_nutrient_total(row, n)

\* the meals of a list of records
MealsIn(records) ==
    { records[k] : k \in { i \in 1..Len(records) : records[i].record_type = "MEAL" } }

\* C12: a portion's nutrient amounts are frozen at creation: a meal read back
\* from the database, at the patient's login or when a specialist loads the
\* patient's diary, has the nutrient totals it was recorded with, also when
\* the dataset has changed in between.
C12_ReloadKeepsNutrientTotals ==
    /\ last_op = "login" =>
        \A d \in 1..Len(diaries) : \A m \in MealsIn(diaries[d].records) : TotalsAsRecorded(m)
    /\ (last_op = "diary_loaded" /\ diaries # <<>>) =>
        \A m \in MealsIn(diaries[Len(diaries)].records) : TotalsAsRecorded(m)

(***************************************************************************)
(* Claims on the diaries of a patient                                      *)
(***************************************************************************)

\* C13: after any sequence of Patient.register_record, DailyDiary.add_record,
\* modify_record and remove_record, and of the controller operations built on
\* them, every record of a DailyDiary was created on the diary's day.
C13_RecordsFallOnDiaryDay ==
    \A d \in 1..Len(diaries) : \A k \in 1..Len(diaries[d].records) :
        DateOf(diaries[d].records[k].created_at) = diaries[d].day

\* C14: after any sequence of register_record, add_meal, add_symptom, modify
\* and remove operations, login reloads and get_patient_diary calls, the
\* patient owns at most one DailyDiary per calendar date.
C14_OneDiaryPerDate ==
    \A d, e \in 1..Len(diaries) : diaries[d].day = diaries[e].day => d = e

\* a second record went into the diary its day already had, and the
\* specialist was handed that diary instead of a new one
C14_Witness ==
    /\ last_op = "diary_found"
    /\ \E d \in 1..Len(diaries) : Len(diaries[d].records) >= 2

(***************************************************************************)
(* Claims on link requests                                                 *)
(***************************************************************************)
LastLinkOp == TheValue(link_out)
LastLinkBefore == TheValue(LastLinkOp.before)
LastLinkWas(ops) == link_out # None /\ LastLinkOp.op \in ops
StateAfter(op) == IF op = "accept_request" THEN "CONNECTED" ELSE "REJECTED"

\* C15: accept() and reject() succeed only on a PENDING request, which they
\* move to CONNECTED and REJECTED and whose responded_at they set; on a
\* CONNECTED or REJECTED request they raise RuntimeError and leave the state
\* and responded_at as they were.
C15_RespondOnlyFromPending ==
    (LastLinkWas({"accept_request", "reject_request"}) /\ LastLinkOp.outcome # "ValueError")
    => IF LastLinkBefore.state = "PENDING"
       THEN /\ LastLinkOp.outcome = "ok"
            /\ links[LastLinkOp.link] =
                   [LastLinkBefore EXCEPT !.state = StateAfter(LastLinkOp.op),
                                          !.responded_at = Some(link_clock)]
            /\ LastLinkBefore.responded_at = None
       ELSE /\ LastLinkOp.outcome = "RuntimeError"
            /\ LastLinkBefore.state \in {"CONNECTED", "REJECTED"}
            /\ links = LastLinkOp.store

\* accept() was called on a request that had been rejected
C15_Witness ==
    /\ LastLinkWas({"accept_request"})
    /\ LastLinkOp.outcome = "RuntimeError"
    /\ LastLinkBefore.state = "REJECTED"
    /\ LastLinkBefore.responded_at # None

\* C16: send_message returns only on a CONNECTED link and for a sender who is
\* its patient or its specialist; otherwise it raises RuntimeError (link not
\* active) or PermissionError (foreign sender) and the log is unchanged; on
\* success exactly one message is appended at the end of the log.
C16_SendMessageGuarded ==
    LastLinkWas({"send_message"})
    => IF LastLinkBefore.state # "CONNECTED"
       THEN LastLinkOp.outcome = "RuntimeError" /\ links = LastLinkOp.store
       ELSE IF LastLinkOp.by # LastLinkBefore.patient
               /\ LastLinkOp.by # LastLinkBefore.specialist
       THEN LastLinkOp.outcome = "PermissionError" /\ links = LastLinkOp.store
       ELSE /\ LastLinkOp.outcome = "ok"
            /\ Len(links[LastLinkOp.link].messages) = Len(LastLinkBefore.messages) + 1
            /\ SubSeq(links[LastLinkOp.link].messages, 1, Len(LastLinkBefore.messages))
                   = LastLinkBefore.messages
            /\ links[LastLinkOp.link].messages[Len(LastLinkBefore.messages) + 1].sender
                   = LastLinkOp.by
            /\ \A k \in 1..Len(links) : k # LastLinkOp.link => links[k] = LastLinkOp.store[k]

\* a stranger wrote on a connected link that already held a message
C16_Witness ==
    /\ LastLinkWas({"send_message"})
    /\ LastLinkOp.outcome = "PermissionError"
    /\ LastLinkOp.by = OtherEmail
    /\ LastLinkBefore.state = "CONNECTED"
    /\ Len(LastLinkBefore.messages) = 1

\* the link store holds a CONNECTED request between the two
ConnectedInStore(specialist, patient) ==
    \E k \in 1..Len(links) :
        /\ links[k].patient = patient
        /\ links[k].specialist = specialist
        /\ links[k].state = "CONNECTED"

\* C17: in every state reached by send_link_request, accept_request,
\* reject_request and remove_link, get_patient_diary and nutrient_total raise
\* PermissionError unless the link store holds a CONNECTED link between the
\* specialist and the patient.
C17_DiaryOnlyWhileLinked ==
    [][sessions' = sessions + 1
        => (last_op' = "PermissionError" <=> ~ConnectedInStore(SpecialistEmail, PatientEmail))]_vars

\* the specialist removed the link and was then refused the diary
C17_Witness ==
    /\ LastLinkWas({"specialist_remove_link"})
    /\ LastLinkOp.outcome = "ok"
    /\ LastLinkOp.by = SpecialistEmail
    /\ ~ConnectedInStore(SpecialistEmail, PatientEmail)
    /\ last_op = "PermissionError"

\* the store before the last call held a CONNECTED request with the specialist
WasConnected(specialist) ==
    \E k \in 1..Len(LastLinkOp.store) :
        /\ LastLinkOp.store[k].patient = PatientEmail
        /\ LastLinkOp.store[k].specialist = specialist
        /\ LastLinkOp.store[k].state = "CONNECTED"

\* C18: PatientController.remove_link(specialist) removes the CONNECTED link
\* of the pair from the link store and from the database; without one it
\* raises ValueError and leaves the link store unchanged.
C18_PatientRemovesLink ==
    LastLinkWas({"patient_remove_link"})
    => IF WasConnected(LastLinkOp.by)
       THEN /\ LastLinkOp.outcome = "ok"
            /\ Len(links) = Len(LastLinkOp.store) - 1
            /\ Cardinality(DOMAIN db_links.table) = Len(links)
       ELSE /\ LastLinkOp.outcome = "ValueError"
            /\ links = LastLinkOp.store

(***************************************************************************)
(* Claims on meals entered twice and on passwords                          *)
(***************************************************************************)
\* a diary of `ds` holds a meal created at `t`
MealHeldAt(ds, t) ==
    \E d \in 1..Len(ds) : \E k \in 1..Len(ds[d].records) :
        ds[d].records[k].record_type = "MEAL" /\ ds[d].records[k].created_at = t

\* C19: add_meal for a day and time at which the diary already holds a meal
\* raises ValueError and adds no second record: a meal that add_meal did add
\* was created at a time no meal of the diaries held.
C19_AddMealRefusesTakenTime ==
    [][(last_op' = "add_meal" /\ next_rec_id' = next_rec_id + 1)
        => \A d \in 1..Len(diaries') : \A k \in 1..Len(diaries'[d].records) :
              diaries'[d].records[k].id = next_rec_id
              => ~MealHeldAt(diaries, diaries'[d].records[k].created_at)]_vars

\* the password breaks the rule: shorter than 8 characters, not alphanumeric,
\* without a digit or without an upper-case letter
BreaksRule(pwd) ==
    \/ Len(pwd) < 8
    \/ pwd = <<>>
    \/ \E i \in 1..Len(pwd) : pwd[i] \notin AsciiDigits \cup AsciiUppercase \cup AsciiLowercase
    \/ \A i \in 1..Len(pwd) : pwd[i] \notin AsciiDigits
    \/ \A i \in 1..Len(pwd) : pwd[i] \notin AsciiUppercase

\* C20: signup with a password that breaks the password rule raises
\* ValueError and registers no user.
C20_SignupRejectsWeakPassword ==
    (/\ auth_out # None
     /\ TheValue(auth_out).op = "signup"
     /\ BreaksRule(TheValue(auth_out).password))
    => /\ TheValue(auth_out).outcome = "ValueError"
       /\ ~TheValue(auth_out).known => RepoGet(TheValue(auth_out).email) = None

(***************************************************************************)
(* Accounts over a database that the controllers write to:                 *)
(* change_password and delete_account                                      *)
(***************************************************************************)
MaxAccountOps == 2              \* calls that write or delete rows after signup

AccountOpsLeft == sessions < MaxAccountOps

\* Database.delete(model, email=email) and its like: the rows that stay
DeleteByEmail(table, email) ==
    [d \in { k \in DOMAIN table : table[k].email # email } |-> table[d]]
DeleteBySender(table, email) ==
    [d \in { k \in DOMAIN table : table[k].sender # email } |-> table[d]]
DeleteByReceiver(table, email) ==
    [d \in { k \in DOMAIN table : table[k].receiver # email } |-> table[d]]
DeleteByPatientEmail(table, email) ==
    [d \in { k \in DOMAIN table : table[k].patient_email # Some(email) } |-> table[d]]

\* the loop over db.all(LinkRequest): every row naming the e-mail is deleted
\* by its id
NamedLinkIds(table, email) ==
    { table[d].id : d \in { k \in DOMAIN table :
        table[k].patient.email = email \/ table[k].specialist.email = email } }
DeleteNamedLinks(table, email) ==
    [d \in { k \in DOMAIN table : table[k].id \notin NamedLinkIds(table, email) } |-> table[d]]

\* `_LINK_REQUESTS[:] = [lr for lr in _LINK_REQUESTS if ...]`
RECURSIVE StoreWithout(_, _)
StoreWithout(store, email) ==
    IF store = <<>> THEN <<>>
    ELSE IF Head(store).patient # email /\ Head(store).specialist # email
    THEN <<Head(store)>> \o StoreWithout(Tail(store), email)
    ELSE StoreWithout(Tail(store), email)

\* whether _DBUserRepo.get builds a Patient
IsPatient(email) == SearchByEmail(db_patients, EmailKey(email)) # <<>>

\* what the last account call was given, how it ended and the tables before it
AccountOut(op, email, old, new, outcome) ==
    Some([op |-> op, email |-> email, password |-> old, new_password |-> new,
          outcome |-> outcome,
          known |-> RepoGet(ValidateEmail(email)) # None,
          patients |-> db_patients, specialists |-> db_specialists.table,
          stored |-> RepoGet(ValidateEmail(email)),
          messages |-> db_messages.table, meals |-> db_meals, symptoms |-> db_symptoms,
          links |-> db_links.table])

AccountRaised(op, email, old, new, outcome) ==
    /\ auth_out' = AccountOut(op, email, old, new, outcome)
    /\ UNCHANGED <<db_patients, db_next_id, db_specialists>>

\* db.delete(type(user), email=email) then db.save(user), the user holding
\* the digest of the new password
ResaveUser(email, user, digest) ==
    IF IsPatient(email)
    THEN /\ db_patients' = Put(DeleteByEmail(db_patients, email), db_next_id.Patient,
                               [user EXCEPT !.password = digest])
         /\ db_next_id' = [db_next_id EXCEPT !.Patient = @ + 1]
         /\ UNCHANGED db_specialists
    ELSE /\ db_specialists' =
                [table |-> Put(DeleteByEmail(db_specialists.table, email),
                               db_specialists.next_id, [user EXCEPT !.password = digest]),
                 next_id |-> db_specialists.next_id + 1]
         /\ UNCHANGED <<db_patients, db_next_id>>

\* AuthService.change_password(email, old_password, new_password)
ChangePasswordCall(email, old, new) ==
    IF RepoGet(email) = None
    THEN AccountRaised("change_password", email, old, new, "PermissionError")
    ELSE IF TheValue(RepoGet(email)).password # Hash(old)
    THEN AccountRaised("change_password", email, old, new, "PermissionError")
    ELSE IF ~ValidatePassword(new) \/ ~ValidatePassword(Hash(new))
    THEN AccountRaised("change_password", email, old, new, "ValueError")
    ELSE /\ ResaveUser(email, TheValue(RepoGet(email)), Hash(new))
         /\ auth_out' = AccountOut("change_password", email, old, new, "ok")

ChangePassword ==
    /\ AccountOpsLeft
    /\ sessions' = sessions + 1
    /\ \E email \in Emails, old \in AccountPasswords, new \in AccountPasswords :
        ChangePasswordCall(ValidateEmail(email), old, new)
    /\ UNCHANGED <<link_vars, alarm_vars, dataset_vars, calls, portion_vars, diary_vars,
                   db_meals, db_symptoms, db_messages>>

\* AuthService.delete_account(email)
DeleteAccountCall(email) ==
    IF RepoGet(email) = None
    THEN /\ AccountRaised("delete_account", email, <<>>, <<>>, "KeyError")
         /\ UNCHANGED <<db_messages, db_meals, db_symptoms, db_links, links>>
    ELSE /\ IF IsPatient(email)
            THEN /\ db_patients' = DeleteByEmail(db_patients, email)
                 /\ UNCHANGED db_specialists
            ELSE /\ db_specialists' =
                        [db_specialists EXCEPT !.table = DeleteByEmail(@, email)]
                 /\ UNCHANGED db_patients
         /\ db_messages' =
                [db_messages EXCEPT
                    !.table = DeleteByReceiver(DeleteBySender(@, email), email)]
         /\ db_meals' = DeleteByPatientEmail(db_meals, email)
         /\ db_symptoms' = DeleteByPatientEmail(db_symptoms, email)
         /\ db_links' = [db_links EXCEPT !.table = DeleteNamedLinks(@, email)]
         /\ links' = StoreWithout(links, email)
         /\ auth_out' = AccountOut("delete_account", email, <<>>, <<>>, "ok")
         /\ UNCHANGED db_next_id

DeleteAccount ==
    /\ AccountOpsLeft
    /\ sessions' = sessions + 1
    /\ \E email \in Emails : DeleteAccountCall(ValidateEmail(email))
    /\ UNCHANGED <<link_clock, link_out, alarm_vars, dataset_vars, calls, portion_vars,
                   diary_vars>>

\* signup of the patient and of the dietician, both with "Password1"
AccountSignup ==
    /\ \/ SignupCall(PatientEmail, <<"P", "a", "s", "s", "w", "o", "r", "d", "1">>,
                     "PATIENT", None)
       \/ SignupCall(SpecialistEmail, <<"P", "a", "s", "s", "w", "o", "r", "d", "1">>,
                     "SPECIALIST", Some("DIETICIAN"))
    /\ UNCHANGED NotUsers

\* PatientController.send_link_request of the patient's controller
AccountSendLinkRequest ==
    /\ AccountOpsLeft
    /\ sessions' = sessions + 1
    /\ \E specialist \in Specialists : SendLinkRequestCall(specialist)
    /\ UNCHANGED <<auth_vars, alarm_vars, dataset_vars, calls, portion_vars, diary_vars,
                   db_vars>>

\* MessagingController.send(sender=..., receiver=..., text=...): the Message
\* row carries no id and is inserted
MessagingSend ==
    /\ AccountOpsLeft
    /\ sessions' = sessions + 1
    /\ \E sender \in {PatientEmail, SpecialistEmail},
          receiver \in {PatientEmail, SpecialistEmail}, text \in Texts :
        /\ sender # receiver
        /\ db_messages' =
            [table |-> Put(db_messages.table, db_messages.next_id,
                           MessageAsDict(Message(sender, receiver, text, link_clock))),
             next_id |-> db_messages.next_id + 1]
    /\ UNCHANGED <<db_specialists, auth_out, link_vars, alarm_vars, dataset_vars, calls,
                   portion_vars, diary_vars, db_vars>>

\* the symptom a patient records, with or without the attribute patient_email
AccountSymptom(owner) ==
    [SymptomRecord(0, ReloadTime, "nausea", "MILD") EXCEPT !.patient_email = owner]

\* PatientController(patient, db=db).add_record(record) for the patient that
\* login returned: the record is registered and saved, then the patient is
\* saved, its row carrying no id
AccountAddRecord ==
    /\ AccountOpsLeft
    /\ sessions' = sessions + 1
    /\ IsPatient(PatientEmail)
    /\ \E owner \in Owners :
        /\ RegisterRecord(0, AccountSymptom(owner)) # None
        /\ diaries' = TheValue(RegisterRecord(0, AccountSymptom(owner)))
        /\ db_symptoms' = SaveRow(db_symptoms, db_next_id.SymptomRecord,
                                  RecordAsDict(AccountSymptom(owner))).table
        /\ db_next_id' =
            [db_next_id EXCEPT
                !.SymptomRecord = SaveRow(db_symptoms, db_next_id.SymptomRecord,
                                          RecordAsDict(AccountSymptom(owner))).next_id,
                !.Patient = @ + 1]
    /\ db_patients' = Put(db_patients, db_next_id.Patient, TheValue(RepoGet(PatientEmail)))
    /\ last_op' = "add_record"
    /\ UNCHANGED <<auth_vars, link_vars, alarm_vars, dataset_vars, calls, portion_vars,
                   next_rec_id, db_meals>>

NextAccount ==
    \/ AccountSignup
    \/ ChangePassword
    \/ DeleteAccount
    \/ MessagingSend
    \/ AccountAddRecord
    \/ AccountSendLinkRequest

SpecAccount == InitAuth /\ [][NextAccount]_vars

(***************************************************************************)
(* The alarms of a patient and the notification scheduler                  *)
(***************************************************************************)
MaxAlarms == 2                  \* alarms a patient holds at most
PollSeconds == 30               \* NotificationService.POLL_SECONDS

\* an alarm of every day at 23:59, the same alarm disabled, an alarm of no day
ScheduleAlarms == {
    [hour |-> 23, minute |-> 59, enabled |-> TRUE, days |-> Weekdays],
    [hour |-> 23, minute |-> 59, enabled |-> FALSE, days |-> Weekdays],
    [hour |-> 0, minute |-> 0, enabled |-> TRUE, days |-> {}] }

\* the idx arguments tried: below, inside and above the list
AlarmIndexes == -1..MaxAlarms

\* datetime.now() at a poll: noon, and 30 and 15 seconds before 23:59
PollNows == {Combine(0, 12, 0), Combine(0, 23, 58) + 30, Combine(0, 23, 58) + 45}

\* an index test that only looks at the upper end
BelowLength(idx, length) == idx < length

\* `0 <= idx < len(self.patient.alarms)`
InRange(idx, length) == 0 <= idx /\ idx < length

\* the position of alarms[idx] in the list
ListIndex(idx, length) == IF idx < 0 THEN length + idx + 1 ELSE idx + 1

\* Database.save(self.patient): the row carries the alarms and no id
SavePatientAlarms(patient, list) ==
    /\ db_patients' = Put(db_patients, db_next_id.Patient,
                          [email |-> patient, alarms |-> list])
    /\ db_next_id' = [db_next_id EXCEPT !.Patient = @ + 1]

AlarmOut(op, patient, idx) ==
    Some([op |-> op, patient |-> patient, idx |-> idx,
          before |-> patient_alarms[patient], rows |-> db_patients])

\* the call changed the list to `list` and saved the patient
AlarmsSaved(op, patient, idx, list) ==
    /\ OpsLeft
    /\ patient_alarms' = [patient_alarms EXCEPT ![patient] = list]
    /\ SavePatientAlarms(patient, list)
    /\ alarm_out' = AlarmOut(op, patient, idx)

\* the call logged a warning and did nothing else
AlarmsKept(op, patient, idx) ==
    /\ alarm_out' = AlarmOut(op, patient, idx)
    /\ UNCHANGED <<patient_alarms, db_patients, db_next_id>>

NotAlarms ==
    <<alarm, now, activation, alarm_called, scheduler, singleton, dataset_vars, calls, portion_vars,
      diary_vars, db_meals, db_symptoms, link_vars, sessions, auth_vars>>

\* PatientController.add_alarm(hour, minute, days, enabled)
AddAlarm ==
    /\ \E patient \in AlarmPatients, a \in ScheduleAlarms :
        /\ Len(patient_alarms[patient]) < MaxAlarms
        /\ AlarmsSaved("add_alarm", patient, Len(patient_alarms[patient]),
                       Append(patient_alarms[patient], a))
    /\ UNCHANGED NotAlarms

\* PatientController.update_alarm(idx, hour, minute, days, enabled)
UpdateAlarm ==
    /\ \E patient \in AlarmPatients, idx \in AlarmIndexes, a \in ScheduleAlarms :
        IF InRange(idx, Len(patient_alarms[patient]))
        THEN AlarmsSaved("update_alarm", patient, idx,
                [patient_alarms[patient]
                    EXCEPT ![ListIndex(idx, Len(patient_alarms[patient]))] = a])
        ELSE AlarmsKept("update_alarm", patient, idx)
    /\ UNCHANGED NotAlarms

\* PatientController.remove_alarm(idx)
RemoveAlarm ==
    /\ \E patient \in AlarmPatients, idx \in AlarmIndexes :
        IF InRange(idx, Len(patient_alarms[patient]))
        THEN AlarmsSaved("remove_alarm", patient, idx,
                RemoveAt(patient_alarms[patient],
                         ListIndex(idx, Len(patient_alarms[patient]))))
        ELSE AlarmsKept("remove_alarm", patient, idx)
    /\ UNCHANGED NotAlarms

NotScheduler ==
    <<alarm, now, activation, alarm_called, patient_alarms, alarm_out, singleton, dataset_vars, calls,
      portion_vars, diary_vars, db_vars, link_vars, sessions, auth_vars>>

\* NotificationService.register_patient
RegisterPatient ==
    /\ \E patient \in AlarmPatients :
        /\ \A k \in 1..Len(scheduler.patients) : scheduler.patients[k] # patient
        /\ scheduler' = [scheduler EXCEPT !.patients = Append(@, patient)]
    /\ UNCHANGED NotScheduler

\* NotificationService.start: nothing while the thread is alive
StartScheduler ==
    /\ ~scheduler.running
    /\ scheduler' = [scheduler EXCEPT !.running = TRUE]
    /\ UNCHANGED NotScheduler

\* NotificationService.stop: the loop ends at its next test of the event
StopScheduler ==
    /\ scheduler.running
    /\ scheduler' = [scheduler EXCEPT !.running = FALSE]
    /\ UNCHANGED NotScheduler

\* `next_time - now`: None for the TypeError that subtracting a naive
\* datetime from an aware one raises, else the seconds between the two
TotalSeconds(t, t_aware, from, from_aware) ==
    IF t_aware # from_aware THEN None ELSE Some(t - from)

\* the alarms of the patients in the order the loops visit them
RECURSIVE Watched(_)
Watched(patients) ==
    IF patients = <<>> THEN <<>>
    ELSE [k \in 1..Len(patient_alarms[Head(patients)]) |->
            [patient |-> Head(patients), alarm |-> patient_alarms[Head(patients)][k]]]
         \o Watched(Tail(patients))

\* the two loops of _run from `watched` on, `at` being datetime.now(), which
\* is naive, while next_activation returns a datetime of LOCAL_TZ
RECURSIVE PollFrom(_, _, _)
PollFrom(watched, at, notified) ==
    IF watched = <<>> THEN [outcome |-> "ok", notified |-> notified]
    ELSE IF ~Head(watched).alarm.enabled THEN PollFrom(Tail(watched), at, notified)
    ELSE IF next_activation(Head(watched).alarm, at) = None
    THEN PollFrom(Tail(watched), at, notified)
    ELSE IF TotalSeconds(TheValue(next_activation(Head(watched).alarm, at)), TRUE,
                         at, FALSE) = None
    THEN [outcome |-> "TypeError", notified |-> notified]
    ELSE IF /\ 0 <= TheValue(TotalSeconds(
                        TheValue(next_activation(Head(watched).alarm, at)), TRUE, at, FALSE))
            /\ TheValue(TotalSeconds(
                        TheValue(next_activation(Head(watched).alarm, at)), TRUE, at, FALSE))
               < PollSeconds
    THEN PollFrom(Tail(watched), at,
            Append(notified, [patient |-> Head(watched).patient,
                              when |-> TheValue(next_activation(Head(watched).alarm, at))]))
    ELSE PollFrom(Tail(watched), at, notified)

\* one turn of the loop of _run, POLL_SECONDS or more after the last one; an
\* exception ends the thread
Polled(at, result) ==
    scheduler' = [scheduler EXCEPT !.polled = Some(at),
                                   !.notified = result.notified,
                                   !.outcome = result.outcome,
                                   !.running = result.outcome = "ok"]

Poll ==
    /\ scheduler.running
    /\ \E at \in PollNows :
        /\ scheduler.polled # None => at >= TheValue(scheduler.polled) + PollSeconds
        /\ Polled(at, PollFrom(Watched(scheduler.patients), at, <<>>))
    /\ UNCHANGED NotScheduler

InitSchedule ==
    /\ AlarmIdle
    /\ DatasetIdle
    /\ calls = <<>>
    /\ PortionIdle
    /\ DiaryIdle
    /\ LinkIdle
    /\ AuthIdle

NextSchedule ==
    \/ AddAlarm
    \/ UpdateAlarm
    \/ RemoveAlarm
    \/ RegisterPatient
    \/ StartScheduler
    \/ StopScheduler
    \/ Poll

SpecSchedule == InitSchedule /\ [][NextSchedule]_vars

(***************************************************************************)
(* First access to the dataset singleton by several threads                *)
(***************************************************************************)
NotSingleton ==
    <<alarm, now, activation, alarm_called, schedule_vars, lookup_cache, gpu_cache, calls,
      portion_vars, diary_vars, db_vars, link_vars, sessions, auth_vars>>

\* thread t moves on to `next`
Goes(t, next) == [singleton EXCEPT !.pc[t] = next]

\* what the step of a thread leaves alone
ThreadFrame == UNCHANGED <<nutrients, unit_grams>> /\ UNCHANGED NotSingleton

\* _dataset: `if not hasattr(_dataset, "_instance")`
DatasetCheck ==
    /\ \E t \in Threads :
        /\ singleton.pc[t] = "start"
        /\ singleton' = Goes(t, IF singleton.cached = None THEN "default" ELSE "return")
    /\ ThreadFrame

\* AlimentazioneDataset.default: `if cls._instance is None`
DefaultCheck ==
    /\ \E t \in Threads :
        /\ singleton.pc[t] = "default"
        /\ singleton' = Goes(t, IF singleton.instance = None THEN "construct"
                                    ELSE "default_return")
    /\ ThreadFrame

\* `cls(path)`: one more dataset is built from the CSV file
Construct ==
    /\ \E t \in Threads :
        /\ singleton.pc[t] = "construct"
        /\ singleton' = [Goes(t, "assign") EXCEPT !.built = @ + 1,
                                                   !.made[t] = Some(singleton.built + 1)]
    /\ nutrients' = Load(DemoCsv).nutrients
    /\ unit_grams' = Load(DemoCsv).unit_grams
    /\ UNCHANGED NotSingleton

\* `cls._instance = ...`
Assign ==
    /\ \E t \in Threads :
        /\ singleton.pc[t] = "assign"
        /\ singleton' = [Goes(t, "default_return") EXCEPT !.instance = singleton.made[t]]
    /\ ThreadFrame

\* `return cls._instance`
DefaultReturn ==
    /\ \E t \in Threads :
        /\ singleton.pc[t] = "default_return"
        /\ singleton' = [Goes(t, "store") EXCEPT !.made[t] = singleton.instance]
    /\ ThreadFrame

\* `_dataset._instance = DatasetService.default()`
Store ==
    /\ \E t \in Threads :
        /\ singleton.pc[t] = "store"
        /\ singleton' = [Goes(t, "return") EXCEPT !.cached = singleton.made[t]]
    /\ ThreadFrame

\* `return _dataset._instance`
Return ==
    /\ \E t \in Threads :
        /\ singleton.pc[t] = "return"
        /\ singleton' = [Goes(t, "done") EXCEPT !.got[t] = singleton.cached]
    /\ ThreadFrame

\* no dataset exists before the first access
InitSingleton ==
    /\ AlarmIdle
    /\ DatasetIdle
    /\ calls = <<>>
    /\ PortionIdle
    /\ DiaryIdle
    /\ LinkIdle
    /\ AuthIdle

NextSingleton ==
    \/ DatasetCheck
    \/ DefaultCheck
    \/ Construct
    \/ Assign
    \/ DefaultReturn
    \/ Store
    \/ Return

SpecSingleton == InitSingleton /\ [][NextSingleton]_vars

(***************************************************************************)
(* Lookups while callers change the mappings they were given               *)
(***************************************************************************)
\* the densities a caller writes into a mapping
WrittenDensities == {0, 9}

\* a caller assigns to a key of the mapping that lookup returned to it: the
\* mapping is the object that lru_cache holds for that food name
CallerChangesMapping ==
    /\ \E food_name \in DOMAIN lookup_cache :
        \E col \in DOMAIN lookup_cache[food_name], v \in WrittenDensities :
            lookup_cache' = [lookup_cache EXCEPT ![food_name][col] = v]
    /\ UNCHANGED <<auth_vars, sessions, link_vars, alarm_vars, nutrients, unit_grams,
                   gpu_cache, calls, portion_vars, diary_vars, db_vars>>

NextSnapshot == LookupCall \/ GramsPerUnitCall \/ CallerChangesMapping

SpecSnapshot == InitDiary /\ [][NextSnapshot]_vars

(***************************************************************************)
(* Claims on the parties of a message and on live links                    *)
(***************************************************************************)
\* the message the last send_message appended
LastMessage == links[LastLinkOp.link].messages[Len(links[LastLinkOp.link].messages)]

\* C28: a message created by send_message goes to the other party of the
\* link: to the specialist when the sender equals the patient, to the patient
\* when the sender equals the specialist, so never to its own sender.
C28_MessageGoesToOtherParty ==
    (LastLinkWas({"send_message"}) /\ LastLinkOp.outcome = "ok")
    => /\ LastMessage.sender = LastLinkBefore.patient
            => LastMessage.receiver = LastLinkBefore.specialist
       /\ LastMessage.sender = LastLinkBefore.specialist
            => LastMessage.receiver = LastLinkBefore.patient
       /\ LastMessage.receiver # LastMessage.sender

\* C30: after any sequence of send_link_request, accept_request,
\* reject_request and remove_link the store holds at most one live request
\* (PENDING or CONNECTED) for a pair of patient and specialist.
C30_OneLiveLinkPerPair ==
    \A j, k \in 1..Len(links) :
        (/\ links[j].patient = links[k].patient
         /\ links[j].specialist = links[k].specialist
         /\ links[j].state \in {"PENDING", "CONNECTED"}
         /\ links[k].state \in {"PENDING", "CONNECTED"})
        => j = k

(***************************************************************************)
(* Claims on accounts                                                      *)
(***************************************************************************)
LastAuth == TheValue(auth_out)
LastAuthWas(op) == auth_out # None /\ LastAuth.op = op

\* the e-mail without regard to case
CaseFolded(email) ==
    IF email \in {"Patient@Example.com", "Patient@example.com"}
    THEN "patient@example.com" ELSE email

\* C21: signup with an e-mail already registered, as patient or specialist
\* and compared without regard to case, raises ValueError and leaves the
\* stored users unchanged; no two stored users share an e-mail.
C21_EmailsAreUnique ==
    /\ (LastAuthWas("signup")
        /\ \E d \in DOMAIN LastAuth.patients :
              CaseFolded(LastAuth.patients[d].email) = CaseFolded(LastAuth.email))
       => /\ LastAuth.outcome = "ValueError"
          /\ db_patients = LastAuth.patients
          /\ db_specialists.table = LastAuth.specialists
    /\ (LastAuthWas("signup")
        /\ \E d \in DOMAIN LastAuth.specialists :
              CaseFolded(LastAuth.specialists[d].email) = CaseFolded(LastAuth.email))
       => /\ LastAuth.outcome = "ValueError"
          /\ db_patients = LastAuth.patients
          /\ db_specialists.table = LastAuth.specialists
    /\ \A d, e \in DOMAIN db_patients :
          CaseFolded(db_patients[d].email) = CaseFolded(db_patients[e].email) => d = e
    /\ \A d, e \in DOMAIN db_specialists.table :
          CaseFolded(db_specialists.table[d].email) = CaseFolded(db_specialists.table[e].email)
          => d = e
    /\ \A d \in DOMAIN db_patients : \A e \in DOMAIN db_specialists.table :
          CaseFolded(db_patients[d].email) # CaseFolded(db_specialists.table[e].email)

\* the address typed with capitals was refused because the patient had
\* registered it in lower case
C21_Witness ==
    /\ LastAuthWas("signup")
    /\ LastAuth.email = TypedEmail
    /\ LastAuth.outcome = "ValueError"
    /\ LastAuth.known
    /\ \E d \in DOMAIN db_patients : db_patients[d].email = PatientEmail
    /\ \E d \in DOMAIN db_specialists.table : db_specialists.table[d].email = SpecialistEmail

\* the state after a change_password call: what the claim says of it
ChangePasswordTookEffect ==
    /\ (LastAuth.outcome = "ok" /\ LastAuth.new_password # LastAuth.password)
       => /\ LoginOutcome(LastAuth.email, LastAuth.new_password) = "ok"
          /\ LoginOutcome(LastAuth.email, LastAuth.password) = "PermissionError"
    /\ (LastAuth.stored # None
        /\ TheValue(LastAuth.stored).password # Hash(LastAuth.password))
       => /\ LastAuth.outcome = "PermissionError"
          /\ db_patients = LastAuth.patients
          /\ db_specialists.table = LastAuth.specialists

\* C22: after a successful change_password(email, old, new) with new other
\* than old, login(email, new) succeeds and login(email, old) raises
\* PermissionError; with a wrong old password the call raises
\* PermissionError and the stored users are as they were.
C22_ChangePasswordTakesEffect ==
    [][(auth_out' # auth_out /\ LastAuthWas("change_password")')
       => ChangePasswordTookEffect']_vars

\* the password was changed under the address typed with capitals, which
\* left the old row in place beside the new one
C22_Witness ==
    /\ LastAuthWas("change_password")
    /\ LastAuth.outcome = "ok"
    /\ LastAuth.new_password # LastAuth.password
    /\ LastAuth.email = DomainLoweredEmail
    /\ Cardinality(DOMAIN db_patients) >= 2

\* the registered user that delete_account found, by its stored address
DeletedUser == TheValue(LastAuth.stored).email

\* no row of the deleted user is left: its user rows, the messages it sent
\* or received, its records (every record row here was written by the
\* patient's controller) and the link requests naming it
NoUserRowLeft ==
    /\ \A d \in DOMAIN db_patients : db_patients[d].email # DeletedUser
    /\ \A d \in DOMAIN db_specialists.table : db_specialists.table[d].email # DeletedUser
NoMessageLeft ==
    \A d \in DOMAIN db_messages.table :
        /\ db_messages.table[d].sender # DeletedUser
        /\ db_messages.table[d].receiver # DeletedUser
NoRecordLeft ==
    DeletedUser = PatientEmail => db_meals = <<>> /\ db_symptoms = <<>>
NoLinkLeft ==
    \A d \in DOMAIN db_links.table :
        /\ db_links.table[d].patient.email # DeletedUser
        /\ db_links.table[d].specialist.email # DeletedUser

\* the rows of the other users are the rows they were before the call
OthersUntouched ==
    /\ \A d \in DOMAIN LastAuth.patients :
          LastAuth.patients[d].email # DeletedUser
          => d \in DOMAIN db_patients /\ db_patients[d] = LastAuth.patients[d]
    /\ \A d \in DOMAIN LastAuth.specialists :
          LastAuth.specialists[d].email # DeletedUser
          => d \in DOMAIN db_specialists.table
             /\ db_specialists.table[d] = LastAuth.specialists[d]
    /\ \A d \in DOMAIN LastAuth.messages :
          (LastAuth.messages[d].sender # DeletedUser
           /\ LastAuth.messages[d].receiver # DeletedUser)
          => d \in DOMAIN db_messages.table /\ db_messages.table[d] = LastAuth.messages[d]
    /\ \A d \in DOMAIN LastAuth.links :
          (LastAuth.links[d].patient.email # DeletedUser
           /\ LastAuth.links[d].specialist.email # DeletedUser)
          => d \in DOMAIN db_links.table /\ db_links.table[d] = LastAuth.links[d]
    /\ DeletedUser # PatientEmail
       => db_meals = LastAuth.meals /\ db_symptoms = LastAuth.symptoms

DeleteAccountReturned ==
    /\ auth_out' # auth_out
    /\ LastAuthWas("delete_account")'
    /\ LastAuth'.outcome = "ok"

\* C23: after delete_account(email) returns for a registered user the
\* database holds no user row of it, no message sent or received by it, no
\* meal or symptom record of it and no link request naming it, and the rows
\* of every other user are untouched.
C23_DeleteAccountRemovesEveryRow ==
    [][DeleteAccountReturned
       => (NoUserRowLeft /\ NoMessageLeft /\ NoRecordLeft /\ NoLinkLeft
           /\ OthersUntouched)']_vars

(***************************************************************************)
(* Claims on alarms and on the scheduler                                   *)
(***************************************************************************)
LastAlarm == TheValue(alarm_out)

\* C24: update_alarm(idx, ...) and remove_alarm(idx) with idx outside
\* 0..len(alarms)-1 leave the patient's alarm list and the persisted patient
\* rows unchanged.
C24_BadIndexChangesNothing ==
    (/\ alarm_out # None
     /\ LastAlarm.op \in {"update_alarm", "remove_alarm"}
     /\ (LastAlarm.idx < 0 \/ LastAlarm.idx > Len(LastAlarm.before) - 1))
    => /\ patient_alarms[LastAlarm.patient] = LastAlarm.before
       /\ db_patients = LastAlarm.rows

\* a patient holding one alarm called remove_alarm(-1)
C24_Witness ==
    /\ alarm_out # None
    /\ LastAlarm.op = "remove_alarm"
    /\ LastAlarm.idx = -1
    /\ Len(LastAlarm.before) = 1
    /\ db_patients # <<>>

\* every enabled alarm of a registered patient whose next activation lies
\* less than POLL_SECONDS after the time polled was given to the callback
DueAlarmsNotified ==
    \A k \in 1..Len(scheduler.patients) :
        \A j \in 1..Len(patient_alarms[scheduler.patients[k]]) :
            (/\ patient_alarms[scheduler.patients[k]][j].enabled
             /\ next_activation(patient_alarms[scheduler.patients[k]][j],
                                TheValue(scheduler.polled)) # None
             /\ TheValue(next_activation(patient_alarms[scheduler.patients[k]][j],
                                         TheValue(scheduler.polled)))
                < TheValue(scheduler.polled) + 30)
            => \E n \in 1..Len(scheduler.notified) :
                /\ scheduler.notified[n].patient = scheduler.patients[k]
                /\ scheduler.notified[n].when =
                    TheValue(next_activation(patient_alarms[scheduler.patients[k]][j],
                                             TheValue(scheduler.polled)))

\* C27: while the scheduler is running, each poll at `now` examines every
\* registered patient's enabled alarms, and for every alarm whose next
\* activation lies less than POLL_SECONDS after `now` the callback is
\* invoked with that patient and that activation time.
C27_PollNotifiesDueAlarms ==
    [][scheduler'.polled # scheduler.polled => DueAlarmsNotified']_vars

(***************************************************************************)
(* Claims on the records stored by successive controllers                  *)
(***************************************************************************)

\* every row of `before` is a row of `after`, unchanged
RowsKept(before, after) ==
    \A d \in DOMAIN before : d \in DOMAIN after /\ after[d] = before[d]

\* C29: adding a record never replaces a stored one: after add_meal or
\* add_symptom by any PatientController, also one made in a later session,
\* every meal and symptom row stored before is still stored unchanged and
\* the number of stored rows of that type has grown by one.
C29_AddNeverReplaces ==
    [][(last_op' \in {"add_meal", "add_symptom"} /\ next_rec_id' = next_rec_id + 1)
        => /\ RowsKept(db_meals, db_meals')
           /\ RowsKept(db_symptoms, db_symptoms')
           /\ last_op' = "add_meal"
              => Cardinality(DOMAIN db_meals') = Cardinality(DOMAIN db_meals) + 1
           /\ last_op' = "add_symptom"
              => Cardinality(DOMAIN db_symptoms') = Cardinality(DOMAIN db_symptoms) + 1]_vars

(***************************************************************************)
(* Claims on the dataset singleton                                         *)
(***************************************************************************)

\* C25: the dataset singleton is constructed at most once: when several
\* threads call the accessor before it is initialised, under every
\* interleaving one dataset is built and all callers receive that one.
C25_SingletonBuiltOnce ==
    /\ singleton.built <= 1
    /\ \A s, t \in Threads :
          (singleton.got[s] # None /\ singleton.got[t] # None)
          => singleton.got[s] = singleton.got[t]

\* C26: the dataset is a read-only snapshot: for every food name every
\* lookup returns the densities the first lookup of that name returned,
\* whatever calls happened in between and whatever callers did to the
\* mappings returned to them.
C26_LookupsAgreeWithFirst ==
    \A i, j \in 1..Len(calls) :
        (/\ i < j
         /\ calls[i].op = "lookup"
         /\ calls[j].op = "lookup"
         /\ calls[i].food_name = calls[j].food_name)
        => calls[j].outcome = calls[i].outcome

====
